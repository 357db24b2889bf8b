----------------------------- MODULE CodexTask -----------------------------
(***************************************************************************)
(* One Codex task of RAVIS's relay (ravis/agent/session.py): its turns,    *)
(* the ways a turn is ended, the confirmation that its processes are gone, *)
(* its settlement, and what Codex's process and a restart of RAVIS do to   *)
(* it.  The record task holds the AgentSession; each of its coroutines is  *)
(* split where it awaits, and what the code reads again after an await is  *)
(* read again here:                                                        *)
(*   task.sends      turn/start requests without their continuation,       *)
(*   task.ending     turns whose _end_sequence waits for Codex,            *)
(*   task.concluding _conclude_turn at its cleanup, or in _follow_on       *)
(*                   waiting for the action lock,                          *)
(*   task.recheck    the tick's look at what a Stop left,                  *)
(*   holder          the route that awaits with the action lock held.      *)
(* Turns are numbered as the task starts them; Codex's id of a turn is its *)
(* number.  The project's lock is what the others make of it: ProjectLock  *)
(* models its two layers.  Site asks and the reopening of a thread for     *)
(* them, the temp folder and the transcript are left out.                  *)
(*                                                                         *)
(* faults names what a behaviour suffers beyond the failures that are      *)
(* always possible (requests refused, processes surviving their signals);  *)
(* each property says which it survives, and all survive "ends":           *)
(*   "ends"    Codex's process ends, or RAVIS restarts,                    *)
(*   "late"    what Codex says of a turn comes after the turn's end: its   *)
(*             answer to turn/start or its messages after the conclusion,  *)
(*             the refusal of turn/start after something else ended it,    *)
(*   "deaf"    Codex goes on with a turn it was told to interrupt,         *)
(*   "blind"   ps does not answer,                                         *)
(*   "overtaken" a tick's look at the leftovers is overtaken by a Stop,    *)
(*   "found"   a look gives the task a command that earlier ones missed.   *)
(***************************************************************************)
EXTENDS Naturals, Sequences, FiniteSets

CONSTANTS MaxTurns,     \* turns the task may start
          MaxFailures,  \* times Codex's process ends or RAVIS restarts
          MaxInbox,     \* messages waiting in the thread's inbox
          Procs,        \* command processes Codex may start
          FaultSets     \* the sets of faults a behaviour may suffer

ASSUME TaskAssumption == /\ MaxTurns \in Nat \ {0}
                         /\ MaxFailures \in Nat
                         /\ MaxInbox \in Nat \ {0}
                         /\ FaultSets \subseteq SUBSET {"ends", "late", "deaf", "blind",
                                                      "overtaken", "found"}

VARIABLES task,       \* the AgentSession
          holder,     \* who awaits with its action_lock: a route, or "nobody"
          lock,       \* the project's lock: "free", "mine", or "other"
          codex,      \* Codex's process: the turn it runs, what it was sent, the inbox it fills
          procs,      \* the command processes that run
          recorded,   \* the command processes RAVIS's database names
          astray,     \* those a look need not give to the task any more
          concluded,  \* how often each turn was said to be completed
          failures, faults

vars == <<task, holder, lock, codex, procs, recorded, astray, concluded, failures, faults>>
outside == <<codex, procs, recorded, astray, failures, faults>>

TURN_STATES == {"starting", "running", "waiting_on_you"}
SETTLE_STATES == {"stopped", "completed_needs_review", "paused_unanswered",
                  "paused_for_update", "uncertain"}
OVER == {"ended", "failed"}
States == TURN_STATES \cup SETTLE_STATES \cup OVER \cup
            {"none", "opening", "stopping", "leftover", "idle"}
Reasons == {"running", "completed", "stop", "policy_timeout", "update", "crash",
            "turn_start_timeout", "step_cap"}

FINAL_STATE == [reason \in Reasons |->
                  CASE reason = "stop" -> "stopped"
                    [] reason = "policy_timeout" -> "paused_unanswered"
                    [] reason = "update" -> "paused_for_update"
                    [] reason \in {"crash", "turn_start_timeout"} -> "uncertain"
                    [] OTHER -> "completed_needs_review"]

Turns == 1 .. MaxTurns
Started(n) == [n |-> n, reason |-> "running", began |-> FALSE, done |-> FALSE, failed |-> FALSE,
               due |-> FALSE]
NewTask == [state |-> "none", turn |-> Started(0), active |-> 0, stopRequested |-> FALSE,
            queued |-> FALSE, ask |-> FALSE, confirmed |-> FALSE, leftover |-> {},
            after |-> "completed_needs_review", claim |-> 0, endAfterSettle |-> FALSE,
            loaded |-> FALSE, sends |-> {}, ending |-> {}, concluding |-> {}, recheck |-> {}]

InTurn == task.state \in TURN_STATES
NeedsSettle == task.state \in SETTLE_STATES
Free == holder = "nobody"
ConsumerBusy == \E c \in task.concluding : c.by = "consumer"
----------------------------------------------------------------------------
(* What the handlers share *)

\* _resolve_all: every open request gets its stop response; the last one answered, a task that
\* waited runs again.
Resolved(r) == [r EXCEPT !.ask = FALSE,
                         !.state = IF r.ask /\ @ = "waiting_on_you" THEN "running" ELSE @]

\* Mutant of EndTurnAs: a later reason ends the turn again.
EndTurnAsAlways(r, why) ==
    [Resolved(r) EXCEPT !.turn.reason = why, !.stopRequested = TRUE, !.ending = @ \cup {r.turn.n}]

\* _end_turn_as: the first reason stands, and starts the end sequence.
EndTurnAs(r, why) ==
    IF r.turn.reason # "running" THEN r
    ELSE [Resolved(r) EXCEPT !.turn.reason = why, !.stopRequested = TRUE,
                             !.ending = @ \cup {r.turn.n}]

\* _begin_turn: queued feedback goes with the text; the send is a task of its own.
BeginTurn(r) ==
    [r EXCEPT !.turn = Started(@.n + 1), !.queued = FALSE, !.stopRequested = FALSE,
              !.confirmed = FALSE, !.leftover = {}, !.state = "starting",
              !.sends = @ \cup {[n |-> r.turn.n + 1,
                                  answer |-> IF codex.up THEN "none" ELSE "gone"]}]

\* Mutant of Began: a turn that is being stopped runs again.
BeganRunning(r, n) ==
    IF r.active = n \/ r.turn.began THEN r
    ELSE [r EXCEPT !.active = n, !.turn.began = TRUE, !.state = "running"]

\* _turn_began, from the answer to turn/start or from turn/started.
Began(r, n) ==
    IF r.active = n \/ r.turn.began THEN r
    ELSE [r EXCEPT !.active = n, !.turn.began = TRUE,
                   !.state = IF @ = "starting" THEN "running" ELSE @]

\* Unless messages are late, the answer to a turn's start is handled before the turn's end is.
Answered == "late" \in faults \/ \A s \in task.sends : s.answer # "taken"

\* An open request that a step answers is answered to Codex in that step.
Responds(c) == [c EXCEPT !.asking = @ /\ ~(task.ask /\ ~task'.ask)]

\* Codex, while it runs, is asked for the turn the task has just begun.
AsksCodex == codex' = [codex EXCEPT !.starts = IF codex.up THEN @ \cup {task.turn.n + 1} ELSE @]

\* Mutant of Cleanups: a signal sent is a process gone.
CleanupsTrusted(also) ==
    {[gone |-> TRUE, named |-> {}, seen |-> seen] : seen \in SUBSET procs}

\* What a look cannot miss: the commands recorded, those it gives to the task by their parent,
\* folder or arguments, and those the owner asked for by name.
CannotMiss(also) == procs \ ((astray \ recorded) \ also)

Found(also) == {found \in SUBSET procs : /\ CannotMiss(also) \subseteq found
                                         /\ "found" \in faults \/ found = CannotMiss(also)}

\* cleanup.end: what a look finds is signalled; what survives is named.  Nothing is confirmed while
\* one survives or the thread lists a terminal.  When ps cannot answer, nothing was found and only
\* what the owner pressed Stop for is still named.
Cleanups(also) ==
    {c \in [gone : BOOLEAN, named : SUBSET procs, seen : Found(also)] :
        c.named \subseteq c.seen /\ (c.gone => c.named = {})}
      \cup IF "blind" \in faults THEN {[gone |-> FALSE, named |-> also, seen |-> {}]} ELSE {}

\* Its look records what it finds, and what it ended is recorded as gone.
Cleaned(c) ==
    /\ procs' = procs \ (c.seen \ c.named)
    /\ recorded' = (recorded \ c.seen) \cup (c.seen \cap c.named)
    /\ astray' = astray \cap procs'

Confirm(r, c) == [r EXCEPT !.confirmed = c.gone, !.leftover = c.named]

MayTake == lock \in {"mine", "free"}

\* Mutant of LockTaken: a task that settled is taken to hold its lock still.
LockAssumed == MayTake /\ lock' = IF task.state = "none" THEN "mine" ELSE lock

\* take_for_turn without a token: held already, or taken now; LockTaken is its success.
LockTaken == MayTake /\ lock' = "mine"
----------------------------------------------------------------------------
(* Creating the task and starting its turns *)

Init ==
    /\ task = NewTask
    /\ holder = "nobody" /\ lock = "free"
    /\ codex = [up |-> TRUE, told |-> TRUE, turn |-> 0, asking |-> FALSE, starts |-> {},
                inbox |-> <<>>]
    /\ procs = {} /\ recorded = {} /\ astray = {}
    /\ concluded = [n \in Turns |-> 0]
    /\ failures = 0
    /\ faults \in FaultSets

\* AgentSessions.create: the lock, the row, then the thread is opened.
Create ==
    /\ task.state = "none" /\ codex.up
    /\ LockTaken
    /\ task' = [task EXCEPT !.state = "opening"]
    /\ UNCHANGED <<holder, concluded>> /\ UNCHANGED outside

\* The thread opened: the first turn starts.
Opened ==
    /\ task.state = "opening" /\ codex.up
    /\ task' = BeginTurn([task EXCEPT !.loaded = TRUE])
    /\ AsksCodex
    /\ UNCHANGED <<holder, lock, procs, recorded, astray, concluded, failures, faults>>

OpeningFails ==
    /\ task.state = "opening"
    /\ lock' = "free"
    /\ task' = [task EXCEPT !.state = "failed"]
    /\ UNCHANGED <<holder, concluded>> /\ UNCHANGED outside

\* POST .../turns for a resting task: the lock first, then a thread that is not loaded is resumed.
Turn ==
    /\ Free /\ task.state = "idle" /\ codex.up /\ task.turn.n < MaxTurns
    /\ LockTaken
    /\ IF task.loaded THEN task' = BeginTurn(task) /\ AsksCodex /\ UNCHANGED holder
                      ELSE holder' = "turn" /\ UNCHANGED <<task, codex>>
    /\ UNCHANGED <<procs, recorded, astray, concluded, failures, faults>>

Resumed ==
    /\ holder = "turn" /\ codex.up
    /\ task' = BeginTurn([task EXCEPT !.loaded = TRUE])
    /\ codex' = [codex EXCEPT !.starts = @ \cup {task.turn.n + 1}, !.inbox = <<>>]
    /\ holder' = "nobody"
    /\ UNCHANGED <<lock, procs, recorded, astray, concluded, failures, faults>>

\* thread/resume refused: the turn is refused, and the lock it took stays taken.
ResumeFails ==
    /\ holder = "turn"
    /\ holder' = "nobody"
    /\ UNCHANGED <<task, lock, concluded>> /\ UNCHANGED outside

\* _send_turn_start continues: Codex took the turn, whichever turn is the task's by then ...
SendAnswered(s) ==
    /\ s \in task.sends /\ s.answer = "taken"
    /\ task' = Began([task EXCEPT !.sends = @ \ {s}], s.n)
    /\ UNCHANGED <<holder, lock, concluded>> /\ UNCHANGED outside

\* ... or refused it, or its process ended: the turn is completed as failed, and concluded ...
SendFailed(s) ==
    /\ s \in task.sends /\ s.answer \in {"none", "gone"}
    /\ "late" \in faults \/ (s.n = task.turn.n /\ task.turn.reason = "running")
    /\ task' = [task EXCEPT !.sends = @ \ {s}, !.turn.reason = "completed",
                            !.turn.failed = TRUE,
                            !.concluding = @ \cup {[by |-> "send", n |-> s.n, at |-> "cleanup"]}]
    /\ codex' = [codex EXCEPT !.starts = @ \ {s.n}]
    /\ UNCHANGED <<holder, lock, procs, recorded, astray, concluded, failures, faults>>

\* ... or did not answer in time, and may still take it.
SendTimesOut(s) ==
    /\ s \in task.sends /\ s.answer = "none"
    /\ "late" \in faults \/ s.n = task.turn.n
    /\ task' = EndTurnAs([task EXCEPT !.sends = @ \ {s}], "turn_start_timeout")
    /\ codex' = Responds(codex)
    /\ UNCHANGED <<holder, lock, procs, recorded, astray, concluded, failures, faults>>
----------------------------------------------------------------------------
(* Codex's messages, and its requests *)

\* _consume: the next message, unless the consumer still handles one; a task that is over
\* has cancelled it.
Arrives(kind) == /\ ~ConsumerBusy /\ task.state \notin OVER
               /\ codex.inbox # <<>> /\ Head(codex.inbox).kind = kind
Message == Head(codex.inbox)
Taken == [codex EXCEPT !.inbox = Tail(@)]

TurnStarted ==
    /\ Arrives("started")
    /\ task' = Began(task, Message.n)
    /\ codex' = Taken
    /\ UNCHANGED <<holder, lock, procs, recorded, astray, concluded, failures, faults>>

\* _turn_completed: a turn that is being ended already is left to its end sequence.
TurnCompleted ==
    /\ Arrives("completed") /\ Answered
    /\ codex' = Responds(Taken)
    /\ task' = IF task.active \notin {0, Message.n} THEN task
               ELSE IF task.turn.reason # "running"
                    THEN [task EXCEPT !.turn.failed = Message.failed, !.turn.done = TRUE]
               ELSE [Resolved(task) EXCEPT
                       !.turn.failed = Message.failed, !.turn.done = TRUE,
                       !.turn.reason = "completed",
                       !.concluding = @ \cup
                          {[by |-> "consumer", n |-> task.turn.n, at |-> "cleanup"]}]
    /\ UNCHANGED <<holder, lock, procs, recorded, astray, concluded, failures, faults>>

Offered == ~task.stopRequested /\ InTurn

\* Mutant of Declined: a request that comes too late is dropped.
DeclinedInSilence(c) == c

\* A request that is not offered gets its stop response at once.
Declined(c) == [c EXCEPT !.asking = @ /\ Offered]

\* _codex_request: offered to the windows, unless the turn is being ended.
CodexRequest ==
    /\ Arrives("asks")
    /\ codex' = Declined(Taken)
    /\ task' = IF ~Offered THEN task
               ELSE [task EXCEPT !.ask = TRUE,
                       !.state = IF @ = "running" THEN "waiting_on_you" ELSE @]
    /\ UNCHANGED <<holder, lock, procs, recorded, astray, concluded, failures, faults>>

\* A completed step that reaches the step cap ends the turn.
StepCap ==
    /\ ~ConsumerBusy /\ codex.turn # 0 /\ codex.turn = task.active
    /\ task.state \notin OVER /\ task.turn.reason = "running"
    /\ task' = EndTurnAs(task, "step_cap")
    /\ codex' = Responds(codex)
    /\ UNCHANGED <<holder, lock, procs, recorded, astray, concluded, failures, faults>>

\* POST .../answer, accepted while nothing has asked the turn to stop.
Answer ==
    /\ Free /\ task.ask /\ ~task.stopRequested /\ task.state # "stopping"
    /\ task' = Resolved(task)
    /\ codex' = Responds(codex)
    /\ UNCHANGED <<holder, lock, procs, recorded, astray, concluded, failures, faults>>

\* POST .../steer.  Without a turn the text waits for the next one, which needs the lock.
SteerWithoutTurn ==
    /\ Free /\ task.state \in SETTLE_STATES \cup {"idle", "leftover"} /\ ~task.stopRequested
    /\ task.turn.n < MaxTurns /\ LockTaken
    /\ task' = [task EXCEPT !.queued = TRUE]
    /\ UNCHANGED <<holder, concluded>> /\ UNCHANGED outside

\* A turn Codex has not begun cannot be steered yet; one it has is asked to take the text ...
Steer ==
    /\ Free /\ InTurn /\ ~task.stopRequested /\ task.turn.n < MaxTurns
    /\ IF task.active = 0 THEN task' = [task EXCEPT !.queued = TRUE] /\ UNCHANGED holder
                          ELSE holder' = "steer" /\ UNCHANGED task
    /\ UNCHANGED <<lock, concluded>> /\ UNCHANGED outside

\* ... and text it did not take is queued, whatever became of the turn meanwhile.
Steered ==
    /\ holder = "steer"
    /\ holder' = "nobody"
    /\ task' \in {task, [task EXCEPT !.queued = TRUE]}
    /\ UNCHANGED <<lock, concluded>> /\ UNCHANGED outside
----------------------------------------------------------------------------
(* Ending a turn *)

\* Mutant of Stopped: a turn Codex has not begun needs no end sequence.
StoppedAtOnce(r) ==
    IF r.state \notin TURN_STATES \/ r.turn.reason # "running" THEN r
    ELSE IF r.state = "starting"
    THEN [Resolved(r) EXCEPT !.state = "stopped", !.turn.reason = "stop", !.stopRequested = TRUE,
                             !.confirmed = procs = {}]
    ELSE EndTurnAs([r EXCEPT !.state = "stopping"], "stop")

\* stop, from a window, from the owner, or from a cancel.
Stopped(r) == IF r.state \notin TURN_STATES \/ r.turn.reason # "running" THEN r
              ELSE EndTurnAs([r EXCEPT !.state = "stopping"], "stop")

Stop ==
    /\ Free /\ InTurn /\ task.turn.reason = "running"
    /\ task' = Stopped(task)
    /\ codex' = Responds(codex)
    /\ UNCHANGED <<holder, lock, procs, recorded, astray, concluded, failures, faults>>

\* POST .../cancel: stop now, and end once settled; a resting task ends at once.
Cancel ==
    /\ Free /\ task.state \notin OVER \cup {"none", "opening"}
    /\ task' = Stopped([task EXCEPT !.endAfterSettle = TRUE])
    /\ codex' = Responds(codex)
    /\ holder' = IF task.state = "idle" THEN "end" ELSE holder
    /\ UNCHANGED <<lock, procs, recorded, astray, concluded, failures, faults>>

\* The tick sees a request past the policy's limit and waits for the action lock ...
PolicyDue ==
    /\ ~Free /\ task.ask /\ task.turn.reason = "running"
    /\ task' = [task EXCEPT !.turn.due = TRUE]
    /\ UNCHANGED <<holder, lock, concluded>> /\ UNCHANGED outside

\* ... and, with it, ends the turn, whether or not the request is still open; the pause for a new
\* build of Codex looks again.
PolicyFires(why) ==
    /\ Free /\ task.turn.reason = "running"
    /\ IF why = "update" THEN task.state = "waiting_on_you" ELSE task.ask \/ task.turn.due
    /\ task' = EndTurnAs(task, why)
    /\ codex' = Responds(codex)
    /\ UNCHANGED <<holder, lock, procs, recorded, astray, concluded, failures, faults>>

\* _end_sequence: turn/interrupt, which a turn waiting in Codex obeys ...
Interrupted(n) ==
    /\ n \in task.ending /\ task.active # 0 /\ ~task.turn.done
    /\ codex.turn = task.active /\ Len(codex.inbox) < MaxInbox
    /\ codex' = [codex EXCEPT !.turn = 0, !.asking = FALSE,
                   !.inbox = Append(@, [kind |-> "completed", n |-> codex.turn, failed |-> TRUE])]
    /\ UNCHANGED <<task, holder, lock, procs, recorded, astray, concluded, failures, faults>>

\* Mutant of EndSequence: its wait for Codex's end of the turn has no limit.
EndSequenceWaits(n) ==
    /\ n \in task.ending /\ task.turn.done
    /\ task' = [task EXCEPT !.ending = @ \ {n},
                  !.concluding = @ \cup {[by |-> "sequence", n |-> n, at |-> "cleanup"]}]
    /\ UNCHANGED <<codex, holder, lock, procs, recorded, astray, concluded, failures, faults>>

\* ... then, once Codex ended the turn or had its time to, the conclusion.
EndSequence(n) ==
    /\ n \in task.ending
    /\ "deaf" \in faults \/ codex.turn = 0
    /\ Answered /\ ("late" \in faults \/ codex.inbox = <<>>)
    /\ task' = [task EXCEPT !.ending = @ \ {n},
                  !.concluding = @ \cup {[by |-> "sequence", n |-> n, at |-> "cleanup"]}]
    /\ codex' = IF "late" \in faults THEN codex ELSE [codex EXCEPT !.starts = {}]
    /\ UNCHANGED <<holder, lock, procs, recorded, astray, concluded, failures, faults>>

\* _conclude_turn continues after the clean-up, with the turn and the reason as they are now: the
\* turn is said to be completed, and the task comes to leftover, to its queued text, or to rest.
Conclude(c) ==
    /\ c \in task.concluding /\ c.at = "cleanup"
    /\ \E found \in Cleanups({}) :
         LET r == [Confirm(task, found) EXCEPT !.active = 0, !.concluding = @ \ {c}]
             target == FINAL_STATE[r.turn.reason]
         IN
         /\ Cleaned(found)
         /\ task' = IF ~found.gone
                    THEN [r EXCEPT !.after = target, !.queued = FALSE, !.state = "leftover"]
                    ELSE IF r.queued /\ r.turn.reason = "completed" /\ ~r.turn.failed
                    THEN [r EXCEPT !.concluding = @ \cup {[c EXCEPT !.at = "follow"]}]
                    ELSE [r EXCEPT !.queued = FALSE, !.state = target]
    /\ concluded' = IF task.turn.n \in Turns
                    THEN [concluded EXCEPT ![task.turn.n] = IF @ = 2 THEN 2 ELSE @ + 1]
                    ELSE concluded
    /\ UNCHANGED <<holder, lock, codex, failures, faults>>

\* _follow_on: with the action lock, the queued text starts the next turn, or is not delivered.
FollowOn(c) ==
    /\ Free /\ c \in task.concluding /\ c.at = "follow"
    /\ LET r == [task EXCEPT !.concluding = @ \ {c}] IN
       \/ /\ LockTaken /\ task.turn.n < MaxTurns
          /\ task' = BeginTurn(r)
          /\ AsksCodex
       \/ /\ ~MayTake
          /\ task' = [r EXCEPT !.queued = FALSE, !.state = FINAL_STATE[r.turn.reason]]
          /\ UNCHANGED <<lock, codex>>
    /\ UNCHANGED <<holder, procs, recorded, astray, concluded, failures, faults>>
----------------------------------------------------------------------------
(* What a Stop left, and settling *)

\* POST .../leftover: the owner has what the chat named stopped ...
StopLeftovers ==
    /\ Free /\ task.state = "leftover"
    /\ holder' = "stop_leftovers"
    /\ UNCHANGED <<task, lock, concluded>> /\ UNCHANGED outside

\* ... and the task may be settled once it is gone, whatever state the task has by then.
LeftoversStopped ==
    /\ holder = "stop_leftovers"
    /\ holder' = "nobody"
    /\ \E found \in Cleanups(task.leftover) :
         /\ Cleaned(found)
         /\ task' = [Confirm(task, found) EXCEPT !.state = IF found.gone THEN task.after ELSE @]
    /\ UNCHANGED <<lock, codex, concluded, failures, faults>>

\* Mutant of StillAlive: what was named is not looked for again.
NamedAlive(named) == {named}

\* still_alive: what of the named still runs; when ps cannot answer, all of it.
StillAlive(named) == {named \cap procs} \cup (IF "blind" \in faults THEN {named} ELSE {})

\* recheck_leftovers: while leftover, a look at what was named; when none of it runs the task
\* may be settled.  A look that is overtaken began with what was named then ...
RecheckBegins ==
    /\ "overtaken" \in faults /\ task.state = "leftover" /\ task.recheck = {}
    /\ task' = [task EXCEPT !.recheck = {task.leftover}]
    /\ UNCHANGED <<holder, lock, concluded>> /\ UNCHANGED outside

\* ... and sets the state whatever it is by then.
Recheck ==
    /\ \E named \in IF "overtaken" \in faults THEN task.recheck
                     ELSE {task.leftover : x \in {"leftover"} \cap {task.state}} :
         \E alive \in StillAlive(named) :
           LET r == [task EXCEPT !.recheck = {}] IN
           task' = IF alive # {} THEN r
                  ELSE [r EXCEPT !.confirmed = TRUE, !.leftover = {}, !.state = task.after]
    /\ UNCHANGED <<holder, lock, concluded>> /\ UNCHANGED outside

\* claim_settle, for the turn the window saw end; the claim's time may run out.
ClaimSettle ==
    /\ Free /\ NeedsSettle /\ task.confirmed /\ task.claim = 0
    /\ task' = [task EXCEPT !.claim = task.turn.n + 1]
    /\ UNCHANGED <<holder, lock, concluded>> /\ UNCHANGED outside

ClaimExpires ==
    /\ task.claim # 0
    /\ task' = [task EXCEPT !.claim = 0]
    /\ UNCHANGED <<holder, lock, concluded>> /\ UNCHANGED outside

\* Mutant of Settled: the claim stays.
SettledAndClaimed(r) == [r EXCEPT !.leftover = {}]

Settled(r) == [r EXCEPT !.claim = 0, !.leftover = {}]

\* settle: to idle and the lock let go, to idle with the lock kept for the destination of a
\* transfer, or to the task's end, which holds the action lock while it archives the thread.
Settle(next) ==
    /\ Free /\ task.claim # 0 /\ NeedsSettle /\ task.confirmed
    /\ LET r == Settled(task)
           ends == next = "end" \/ task.endAfterSettle
       IN /\ task' = IF ends THEN r ELSE [r EXCEPT !.state = "idle"]
          /\ holder' = IF ends THEN "end" ELSE holder
          /\ lock' = IF ends \/ next = "transfer" \/ lock = "other" THEN lock ELSE "free"
    /\ UNCHANGED concluded /\ UNCHANGED outside

\* DELETE of a resting task.
Delete ==
    /\ Free /\ task.state = "idle"
    /\ holder' = "end"
    /\ UNCHANGED <<task, lock, concluded>> /\ UNCHANGED outside

\* end, when Codex answered thread/archive or did not: the lock goes, the task is over, and a
\* message its consumer was handling is dropped.
Ended ==
    /\ holder = "end"
    /\ holder' = "nobody"
    /\ lock' = IF lock = "mine" THEN "free" ELSE lock
    /\ task' = [task EXCEPT !.loaded = FALSE, !.state = "ended",
                            !.concluding = {c \in @ : c.by # "consumer"}]
    /\ UNCHANGED concluded /\ UNCHANGED outside
----------------------------------------------------------------------------
(* Codex, its command processes, the project's other writers, and RAVIS's restart *)

\* Codex takes the turn it was sent, if its process has the thread, and says so in the answer and
\* in a message.
CodexTakes(n) ==
    /\ codex.up /\ task.loaded
    /\ n \in codex.starts /\ codex.turn = 0 /\ Len(codex.inbox) < MaxInbox
    /\ codex' = [codex EXCEPT !.starts = @ \ {n}, !.turn = n,
                               !.inbox = Append(@, [kind |-> "started", n |-> n, failed |-> FALSE])]
    /\ task' = [task EXCEPT !.sends = {IF s.n = n THEN [s EXCEPT !.answer = "taken"] ELSE s
                                         : s \in @}]
    /\ UNCHANGED <<holder, lock, procs, recorded, astray, concluded, failures, faults>>

CodexAsks ==
    /\ codex.turn # 0 /\ ~codex.asking /\ Len(codex.inbox) < MaxInbox
    /\ codex' = [codex EXCEPT !.asking = TRUE,
                   !.inbox = Append(@, [kind |-> "asks", n |-> codex.turn, failed |-> FALSE])]
    /\ UNCHANGED <<task, holder, lock, procs, recorded, astray, concluded, failures, faults>>

CodexCompletes(failed) ==
    /\ codex.turn # 0 /\ ~codex.asking /\ Len(codex.inbox) < MaxInbox
    /\ codex' = [codex EXCEPT !.turn = 0, !.inbox =
                   Append(@, [kind |-> "completed", n |-> codex.turn, failed |-> failed])]
    /\ UNCHANGED <<task, holder, lock, procs, recorded, astray, concluded, failures, faults>>

\* A turn starts a command; a command ends by itself.
CommandStarts(p) ==
    /\ codex.turn # 0 /\ p \notin procs
    /\ procs' = procs \cup {p}
    /\ recorded' = recorded \ {p}
    /\ UNCHANGED <<task, holder, lock, codex, astray, concluded, failures, faults>>

CommandEnds(p) ==
    /\ p \in procs
    /\ procs' = procs \ {p} /\ astray' = astray \ {p}
    /\ UNCHANGED <<task, holder, lock, codex, recorded, concluded, failures, faults>>

\* Its parent ends, or Codex's process, it changes its folder, or a turn begins after it: no look
\* need find it any more.
CommandStrays(p) ==
    /\ p \in procs
    /\ astray' = astray \cup {p}
    /\ UNCHANGED <<task, holder, lock, codex, procs, recorded, concluded, failures, faults>>

\* sample: while a turn runs or is stopped, a look records the commands it finds.
Sample ==
    /\ InTurn \/ task.state = "stopping"
    /\ \E found \in Found({}) : recorded' = recorded \cup found
    /\ UNCHANGED <<task, holder, lock, codex, procs, astray, concluded, failures, faults>>

\* The connection closes first, and fails what waits for an answer; the task is told later.
CodexEnds ==
    /\ "ends" \in faults /\ codex.up /\ failures < MaxFailures
    /\ codex' = [codex EXCEPT !.up = FALSE, !.told = FALSE, !.turn = 0, !.asking = FALSE,
                               !.starts = {}]
    /\ task' = [task EXCEPT !.sends = {IF s.answer = "none" THEN [s EXCEPT !.answer = "gone"]
                                                             ELSE s : s \in @}]
    /\ failures' = failures + 1
    /\ UNCHANGED <<holder, lock, procs, recorded, astray, concluded, faults>>

\* codex_ended: a running turn is cut off.
TaskTold ==
    /\ ~codex.told
    /\ codex' = Responds([codex EXCEPT !.told = TRUE])
    /\ LET r == [task EXCEPT !.loaded = FALSE] IN
       task' = IF InTurn \/ task.state = "stopping"
               THEN EndTurnAs([r EXCEPT !.turn.began = TRUE, !.turn.done = TRUE], "crash")
               ELSE r
    /\ UNCHANGED <<holder, lock, procs, recorded, astray, concluded, failures, faults>>

CodexStarts ==
    /\ ~codex.up /\ codex.told
    /\ codex' = [codex EXCEPT !.up = TRUE]
    /\ UNCHANGED <<task, holder, lock, procs, recorded, astray, concluded, failures, faults>>

\* Another holder of the project: it takes the lock when it is free, or that of a task that was
\* settled for a transfer, and lets it go.
OthersLock ==
    /\ lock = "mine" => task.state = "idle" /\ holder # "turn"
    /\ lock' = IF lock = "other" THEN "free" ELSE "other"
    /\ UNCHANGED <<task, holder, concluded>> /\ UNCHANGED outside

\* end_recorded: what the database names and still runs is ended.  What it does not name is not
\* looked for: it runs on.
RecordedCleanups(live) ==
    (IF "blind" \in faults
     THEN {[gone |-> recorded = {}, named |-> {}, left |-> live, kept |-> recorded]} ELSE {})
      \cup {[gone |-> left = {}, named |-> left, left |-> left, kept |-> left]
               : left \in SUBSET live}

\* The state that follows once what a restart found is gone.
Left(state) == IF state \in SETTLE_STATES THEN state ELSE "uncertain"

\* RAVIS ends, or stops, and starts again with what its database says of the task.
Restart ==
    /\ "ends" \in faults /\ failures < MaxFailures /\ task.state \notin OVER \cup {"none"}
    /\ failures' = failures + 1
    /\ LET live == procs \cap recorded
           cut == InTurn \/ task.state \in {"opening", "stopping"}
           state == IF cut THEN "uncertain" ELSE task.state
           r == [NewTask EXCEPT !.turn = Started(task.turn.n), !.state = state]
       IN
       \/ /\ state = "idle"
          /\ task' = [r EXCEPT !.confirmed = TRUE]
          /\ UNCHANGED <<procs, recorded>>
       \/ /\ state # "idle"
          /\ \E found \in RecordedCleanups(live) :
               /\ procs' = (procs \ recorded) \cup found.left /\ recorded' = found.kept
               /\ task' = IF found.gone THEN Confirm(r, found)
                          ELSE [Confirm(r, found) EXCEPT !.state = "leftover",
                                                         !.after = Left(state)]
    /\ codex' = [up |-> TRUE, told |-> TRUE, turn |-> 0, asking |-> FALSE, starts |-> {},
                 inbox |-> <<>>]
    /\ astray' = procs'
    /\ holder' = "nobody"
    /\ UNCHANGED <<lock, concluded, faults>>
----------------------------------------------------------------------------
Sends == \E s \in task.sends : SendAnswered(s) \/ SendFailed(s) \/ SendTimesOut(s)
SendContinues == \E s \in task.sends : SendAnswered(s)
EndSequences == \E n \in Turns : EndSequence(n)
Interrupts == \E n \in Turns : Interrupted(n)
Conclusions == \E c \in task.concluding : Conclude(c)
FollowOns == \E c \in task.concluding : FollowOn(c)
Policies == \E why \in {"policy_timeout", "update"} : PolicyFires(why)
Settles == \E next \in {"idle", "end", "transfer"} : Settle(next)
Consumes == TurnStarted \/ TurnCompleted \/ CodexRequest

Next ==
    \/ Create \/ Opened \/ OpeningFails \/ Turn \/ Resumed \/ ResumeFails
    \/ Sends \/ Consumes \/ StepCap \/ Answer
    \/ SteerWithoutTurn \/ Steer \/ Steered
    \/ Stop \/ Cancel \/ PolicyDue \/ Policies
    \/ Interrupts \/ EndSequences \/ Conclusions \/ FollowOns
    \/ StopLeftovers \/ LeftoversStopped \/ RecheckBegins \/ Recheck
    \/ ClaimSettle \/ ClaimExpires \/ Settles \/ Delete \/ Ended
    \/ \E n \in Turns : CodexTakes(n)
    \/ CodexAsks \/ \E failed \in BOOLEAN : CodexCompletes(failed)
    \/ \E p \in Procs : CommandStarts(p) \/ CommandEnds(p) \/ CommandStrays(p)
    \/ Sample
    \/ CodexEnds \/ TaskTold \/ CodexStarts \/ OthersLock \/ Restart

\* RAVIS's own coroutines go on: every await in them has a time limit, which passes whatever
\* Codex sends meanwhile; hence the strong fairness of the interrupt and of the end sequence.
Fairness ==
    /\ WF_vars(SendContinues) /\ WF_vars(Consumes) /\ SF_vars(Interrupts)
    /\ SF_vars(EndSequences) /\ WF_vars(Conclusions) /\ WF_vars(FollowOns)
    /\ WF_vars(TaskTold) /\ WF_vars(Recheck) /\ WF_vars(RecheckBegins)
    /\ WF_vars(LeftoversStopped) /\ WF_vars(Steered) /\ WF_vars(Ended)
    /\ WF_vars(Resumed \/ ResumeFails)

Spec == Init /\ [][Next]_vars /\ Fairness
----------------------------------------------------------------------------
(* Properties *)

\* The types of the task's record and of what surrounds it.
TypeOK ==
    /\ task.state \in States /\ task.turn.n \in 0 .. MaxTurns /\ task.turn.reason \in Reasons
    /\ task.active \in 0 .. MaxTurns /\ task.claim \in 0 .. MaxTurns + 1
    /\ task.leftover \subseteq Procs /\ task.after \in SETTLE_STATES
    /\ \A s \in task.sends : s.n \in Turns /\ s.answer \in {"none", "taken", "gone"}
    /\ task.ending \subseteq Turns
    /\ holder \in {"nobody", "turn", "steer", "stop_leftovers", "end"}
    /\ lock \in {"free", "mine", "other"}
    /\ procs \subseteq Procs /\ recorded \subseteq Procs /\ astray \subseteq procs
    /\ codex.turn \in 0 .. MaxTurns /\ Len(codex.inbox) <= MaxInbox

Only(tolerated) == faults \subseteq tolerated \cup {"ends"}
Working == InTurn \/ task.state \in {"opening", "stopping", "leftover"} \/ NeedsSettle

\* The project is this task's from the moment a turn may write until its work is settled: no
\* conclusion, look or answer brings work to a task that has let the project go.
LockCoversWork == Only({"deaf", "blind", "found"}) /\ Working => lock = "mine"

\* A turn is said to be completed once, however many of its ends (a Stop, Codex's own message, a
\* refused start, the end of Codex's process) come to conclude it.
OneConclusion == Only({"deaf", "blind", "found"}) => \A n \in Turns : concluded[n] <= 1

\* A task is only offered for settling when no command runs that RAVIS has on record, nor one that
\* every look could find: what runs on had slipped from the looks.  (One that slipped from the
\* clean-up may still come on record before a follow-on is refused.)
GoneIsTrue == Only({"found"}) /\ NeedsSettle /\ task.confirmed
                => /\ procs \subseteq astray
                   /\ "found" \in faults \/ procs \cap recorded = {}

\* Nothing turns a task that is over, or a Stop under way, into a turn that merely completed.
EndingsStand ==
    [][Only({"deaf", "blind", "found"}) =>
         /\ task.state \in OVER => task'.state = task.state
         /\ task.state = "stopping" =>
              task'.state \in {"stopping", "stopped", "leftover", "uncertain"}]_vars

\* Codex works in the project only for a turn the task shows as running or being stopped.
NoTurnUnseen == Only({"blind", "found"}) /\ codex.turn # 0
                  => /\ InTurn \/ task.state = "stopping"
                     /\ codex.turn = task.turn.n

\* Codex never waits for an answer that nobody can give any more: what it asks is open to the
\* windows, or still to be handled, until it is answered.  The types hold under every fault.
AsksAreAnswered ==
    /\ TypeOK
    /\ Only({"deaf", "blind", "found"}) /\ codex.asking =>
         \/ task.ask
         \/ \E i \in DOMAIN codex.inbox : codex.inbox[i].kind = "asks"

\* A window settles the turn it claimed: no claim outlives the turn it was made for.
ClaimIsForThisTurn == Only({"deaf", "blind", "found"}) /\ task.claim # 0
                        => NeedsSettle /\ task.claim = task.turn.n + 1

\* A Stop comes to an end, also with a Codex that does not obey the interrupt, and when ps does
\* not answer.
StopEnds == task.state = "stopping" ~> task.state # "stopping"

\* Once what a Stop named as left has ended, the task can be settled without anyone asking again.
LeftoverClears ==
    LET Clear == task.leftover \cap procs = {} IN
    task.state = "leftover" /\ Clear /\ Only({"deaf", "overtaken", "found"})
      ~> task.state # "leftover" \/ ~Clear
=============================================================================
