-------------------------- MODULE CodexTask_proofs --------------------------
(***************************************************************************)
(* Theorems of CodexTask, for any numbers of turns, of failures, of        *)
(* commands and of messages in the inbox.                                  *)
(*                                                                         *)
(* Each action first gets a lemma that says what it does to every field of *)
(* the task and of Codex (the lemmas called ...Is); the steps of the       *)
(* invariant's parts then cite those and not the actions' definitions.     *)
(***************************************************************************)
EXTENDS CodexTask, FiniteSetTheorems, SequenceTheorems, TLAPS

\* Nothing is due of a task that has had no turn.
TurnType == {t \in [n : 0 .. MaxTurns, reason : Reasons, began : BOOLEAN, done : BOOLEAN,
                    failed : BOOLEAN, due : BOOLEAN] : t.due => t.n # 0}
SendType == [n : Turns, answer : {"none", "taken", "gone"}]
ConclusionType == [by : {"send", "consumer", "sequence"}, n : Turns, at : {"cleanup", "follow"}]
TaskType ==
  [state : States, turn : TurnType, active : 0 .. MaxTurns, stopRequested : BOOLEAN,
   queued : BOOLEAN, ask : BOOLEAN, confirmed : BOOLEAN, leftover : SUBSET Procs,
   after : SETTLE_STATES, claim : 0 .. MaxTurns + 1, endAfterSettle : BOOLEAN,
   loaded : BOOLEAN, sends : SUBSET SendType, ending : SUBSET Turns,
   concluding : SUBSET ConclusionType, recheck : SUBSET SUBSET Procs]
MessageType == [kind : {"started", "completed", "asks"}, n : 0 .. MaxTurns, failed : BOOLEAN]
CodexType ==
  [up : BOOLEAN, told : BOOLEAN, turn : 0 .. MaxTurns, asking : BOOLEAN,
   starts : SUBSET Turns, inbox : Seq(MessageType)]

Under == InTurn \/ task.state = "stopping"

\* The types, and what they rest on: before the first turn there is nothing of
\* one, and a route that will begin or queue a turn has one left to begin.
Typed ==
  /\ task \in TaskType /\ codex \in CodexType
  /\ Len(codex.inbox) <= MaxInbox
  /\ holder \in {"nobody", "turn", "steer", "stop_leftovers", "end"}
  /\ lock \in {"free", "mine", "other"}
  /\ procs \subseteq Procs /\ recorded \subseteq Procs /\ astray \subseteq procs
  /\ concluded \in [Turns -> 0 .. 2]

Begun ==
  /\ task.turn.n = 0 =>
       /\ ~ Under /\ ~ task.ask
       /\ task.sends = {} /\ task.ending = {} /\ task.concluding = {}
       /\ codex.turn = 0 /\ codex.starts = {} /\ codex.inbox = <<>>
  /\ task.state \in {"none", "opening"} => task.turn.n = 0 /\ holder = "nobody"
  /\ holder \in {"turn", "steer"} => task.turn.n < MaxTurns

-----------------------------------------------------------------------------
LEMMA ResolvedTyped ==
  ASSUME NEW r \in TaskType PROVE Resolved(r) \in TaskType
BY DEF TaskType, Resolved, States, TURN_STATES

\* A record keeps its type when fields are given values of theirs.
LEMMA TurnWith ==
  ASSUME NEW t \in TurnType
  PROVE  /\ \A x \in Reasons : [t EXCEPT !.reason = x] \in TurnType
         /\ \A x \in BOOLEAN : [t EXCEPT !.began = x] \in TurnType
         /\ \A x \in BOOLEAN : [t EXCEPT !.done = x] \in TurnType
         /\ \A x \in BOOLEAN : [t EXCEPT !.failed = x] \in TurnType
         /\ t.n # 0 => \A x \in BOOLEAN : [t EXCEPT !.due = x] \in TurnType
BY DEF TurnType

LEMMA EndTurnAsTyped ==
  ASSUME NEW r \in TaskType, NEW why \in Reasons, r.turn.n # 0
  PROVE  EndTurnAs(r, why) \in TaskType
<1> DEFINE q == Resolved(r)
           t == [q.turn EXCEPT !.reason = why]
           e == q.ending \cup {r.turn.n}
<1>1. q \in TaskType
  BY ResolvedTyped
<1>2. r.turn \in TurnType /\ q.turn \in TurnType /\ q.ending \subseteq Turns
  BY <1>1 DEF TaskType
<1>3. t \in TurnType /\ e \subseteq Turns
  BY <1>2, TurnWith DEF TurnType, Turns
<1> HIDE DEF q
<1>4. EndTurnAs(r, why) = IF r.turn.reason # "running" THEN r ELSE [q EXCEPT !.turn = t, !.stopRequested = TRUE, !.ending = e]
  BY <1>1 DEF EndTurnAs, TaskType, q
<1> HIDE DEF t, e
<1>5. [q EXCEPT !.turn = t, !.stopRequested = TRUE, !.ending = e] \in TaskType
  BY <1>1, <1>3 DEF TaskType
<1> QED
  BY <1>4, <1>5

LEMMA BeginTurnTyped ==
  ASSUME TaskAssumption, NEW r \in TaskType, r.turn.n < MaxTurns
  PROVE  BeginTurn(r) \in TaskType
<1> DEFINE t == Started(r.turn.n + 1)
           e == r.sends \cup {[n |-> r.turn.n + 1, answer |-> IF codex.up THEN "none" ELSE "gone"]}
<1>2. r.turn \in TurnType /\ r.sends \subseteq SendType
  BY DEF TaskType
<1>3. t \in TurnType /\ e \subseteq SendType
  BY <1>2, TaskAssumption DEF TurnType, Turns, Started, SendType, Reasons, TaskAssumption
<1>4. BeginTurn(r) = [r EXCEPT !.turn = t, !.queued = FALSE, !.stopRequested = FALSE,
              !.confirmed = FALSE, !.leftover = {}, !.state = "starting",
              !.sends = e]
  BY DEF BeginTurn, TaskType
<1> HIDE DEF t, e
<1>5. [r EXCEPT !.turn = t, !.queued = FALSE, !.stopRequested = FALSE,
                !.confirmed = FALSE, !.leftover = {}, !.state = "starting",
                !.sends = e] \in TaskType
  BY <1>3 DEF TaskType, States, TURN_STATES
<1> QED
  BY <1>4, <1>5

LEMMA BeganTyped ==
  ASSUME NEW r \in TaskType, NEW n \in 0 .. MaxTurns
  PROVE  Began(r, n) \in TaskType
<1> DEFINE t == [r.turn EXCEPT !.began = TRUE]
           e == IF r.state = "starting" THEN "running" ELSE r.state
<1>3. t \in TurnType /\ e \in States
  BY TurnWith DEF States, TURN_STATES, TaskType
<1>4. Began(r, n) = IF r.active = n \/ r.turn.began THEN r ELSE [r EXCEPT !.active = n, !.turn = t, !.state = e]
  BY DEF Began, TaskType
<1> HIDE DEF t, e
<1>5. [r EXCEPT !.active = n, !.turn = t, !.state = e] \in TaskType
  BY <1>3 DEF TaskType
<1> QED
  BY <1>4, <1>5

LEMMA StoppedTyped ==
  ASSUME NEW r \in TaskType, r.state \in TURN_STATES => r.turn.n # 0
  PROVE  Stopped(r) \in TaskType
<1> DEFINE q == [r EXCEPT !.state = "stopping"]
<1>1. q \in TaskType /\ q.turn = r.turn
  BY DEF TaskType, States
<1>2. "stop" \in Reasons
  BY DEF Reasons
<1> HIDE DEF q
<1>3. r.turn.n # 0 => EndTurnAs(q, "stop") \in TaskType
  BY <1>1, <1>2, EndTurnAsTyped
<1> QED
  BY <1>3 DEF Stopped, q

\* What a clean-up tells the task, and what its look found.
LEMMA CleanupIs ==
  ASSUME NEW also, also \subseteq Procs, procs \subseteq Procs, NEW c \in Cleanups(also)
  PROVE  /\ c.gone \in BOOLEAN /\ c.named \subseteq Procs /\ (c.gone => c.named = {})
         /\ "blind" \notin faults => c.seen \in Found(also) /\ c.named \subseteq c.seen
<1>1. CASE c \in [gone : BOOLEAN, named : SUBSET procs, seen : Found(also)]
           /\ c.named \subseteq c.seen /\ (c.gone => c.named = {})
  BY <1>1
<1>2. CASE "blind" \in faults /\ c = [gone |-> FALSE, named |-> also, seen |-> {}]
  BY <1>2
<1> QED
  BY <1>1, <1>2 DEF Cleanups

LEMMA ConfirmTyped ==
  ASSUME NEW r \in TaskType, procs \subseteq Procs, NEW also, also \subseteq Procs,
         NEW c \in Cleanups(also)
  PROVE  Confirm(r, c) \in TaskType /\ c.gone \in BOOLEAN
BY CleanupIs DEF Confirm, TaskType

-----------------------------------------------------------------------------
(* What the operators of the model make of the record, field by field.    *)

Same(r, q) == /\ r.active = q.active /\ r.queued = q.queued /\ r.confirmed = q.confirmed
              /\ r.leftover = q.leftover /\ r.after = q.after /\ r.claim = q.claim
              /\ r.loaded = q.loaded /\ r.recheck = q.recheck

LEMMA ResolvedIs ==
  ASSUME NEW r \in TaskType
  PROVE  LET q == Resolved(r) IN
         /\ Same(q, r) /\ ~ q.ask /\ q.turn = r.turn /\ q.sends = r.sends
         /\ q.ending = r.ending /\ q.concluding = r.concluding
         /\ q.stopRequested = r.stopRequested
         /\ q.state = IF r.ask /\ r.state = "waiting_on_you" THEN "running" ELSE r.state
BY DEF Resolved, TaskType, Same

LEMMA EndTurnAsIs ==
  ASSUME NEW r \in TaskType, NEW why
  PROVE  LET q == EndTurnAs(r, why) IN
         /\ Same(q, r) /\ q.sends = r.sends /\ q.concluding = r.concluding
         /\ q.turn.n = r.turn.n /\ q.turn.due = r.turn.due
         /\ r.turn.reason # "running" => q = r
         /\ r.turn.reason = "running" =>
              /\ q.turn.reason = why /\ ~ q.ask /\ q.stopRequested
              /\ q.ending = r.ending \cup {r.turn.n}
              /\ q.state = IF r.ask /\ r.state = "waiting_on_you" THEN "running" ELSE r.state
<1> DEFINE q == Resolved(r)
           t == [q.turn EXCEPT !.reason = why]
           e == q.ending \cup {r.turn.n}
<1>1. q \in TaskType
  BY ResolvedTyped
<1>2. /\ Same(q, r) /\ ~ q.ask /\ q.turn = r.turn /\ q.sends = r.sends
      /\ q.ending = r.ending /\ q.concluding = r.concluding
      /\ q.state = IF r.ask /\ r.state = "waiting_on_you" THEN "running" ELSE r.state
  BY ResolvedIs
<1>3. t.n = r.turn.n /\ t.reason = why /\ t.due = r.turn.due
  BY <1>1, <1>2 DEF TaskType, TurnType
<1> HIDE DEF q
<1>4. EndTurnAs(r, why) = IF r.turn.reason # "running" THEN r
                          ELSE [q EXCEPT !.turn = t, !.stopRequested = TRUE, !.ending = e]
  BY <1>1 DEF EndTurnAs, TaskType, q
<1> HIDE DEF t
<1> DEFINE z == [q EXCEPT !.turn = t, !.stopRequested = TRUE, !.ending = e]
<1>5. /\ Same(z, q) /\ z.ask = q.ask /\ z.turn = t /\ z.sends = q.sends
      /\ z.ending = e /\ z.concluding = q.concluding /\ z.state = q.state /\ z.stopRequested
  BY <1>1 DEF TaskType, Same
<1> HIDE DEF z
<1>6. CASE r.turn.reason # "running"
  BY <1>4, <1>6 DEF Same
<1>7. CASE r.turn.reason = "running"
  <2>1. EndTurnAs(r, why) = z
    BY <1>4, <1>7 DEF z
  <2> QED
    BY <1>2, <1>3, <1>5, <1>7, <2>1 DEF Same
<1> QED
  BY <1>6, <1>7

LEMMA BeginTurnIs ==
  ASSUME NEW r \in TaskType
  PROVE  LET q == BeginTurn(r) IN
         /\ q.state = "starting" /\ q.turn = Started(r.turn.n + 1)
         /\ q.sends = r.sends \cup {[n |-> r.turn.n + 1, answer |-> IF codex.up THEN "none" ELSE "gone"]}
         /\ q.ending = r.ending /\ q.concluding = r.concluding /\ q.claim = r.claim
         /\ q.ask = r.ask /\ q.loaded = r.loaded /\ q.recheck = r.recheck /\ ~ q.stopRequested
BY DEF BeginTurn, TaskType

LEMMA BeganIs ==
  ASSUME NEW r \in TaskType, NEW n
  PROVE  LET q == Began(r, n) IN
         /\ q.turn.n = r.turn.n /\ q.turn.reason = r.turn.reason
         /\ q.turn.due = r.turn.due
         /\ q.sends = r.sends /\ q.ending = r.ending /\ q.concluding = r.concluding
         /\ q.confirmed = r.confirmed /\ q.leftover = r.leftover /\ q.claim = r.claim
         /\ q.loaded = r.loaded /\ q.recheck = r.recheck /\ q.ask = r.ask
         /\ q.state = r.state \/ (r.state = "starting" /\ q.state = "running")
BY DEF Began, TaskType, TurnType

LEMMA StoppedIs ==
  ASSUME NEW r \in TaskType
  PROVE  LET q == Stopped(r) IN
         /\ Same(q, r) /\ q.sends = r.sends /\ q.concluding = r.concluding
         /\ q.turn.n = r.turn.n /\ q.turn.due = r.turn.due
         /\ r.state \notin TURN_STATES \/ r.turn.reason # "running" => q = r
         /\ r.state \in TURN_STATES /\ r.turn.reason = "running" =>
              /\ q.turn.reason = "stop" /\ ~ q.ask
              /\ q.ending = r.ending \cup {r.turn.n} /\ q.state = "stopping"
<1> DEFINE q == [r EXCEPT !.state = "stopping"]
<1>1. /\ q \in TaskType /\ Same(q, r) /\ q.sends = r.sends /\ q.concluding = r.concluding
      /\ q.turn = r.turn /\ q.ending = r.ending /\ q.state = "stopping"
  BY DEF TaskType, States, Same
<1>2. Stopped(r) = IF r.state \notin TURN_STATES \/ r.turn.reason # "running" THEN r
                   ELSE EndTurnAs(q, "stop")
  BY DEF Stopped
<1> HIDE DEF q
<1>3. CASE r.state \notin TURN_STATES \/ r.turn.reason # "running"
  BY <1>2, <1>3 DEF Same
<1>4. CASE r.state \in TURN_STATES /\ r.turn.reason = "running"
  <2>1. Stopped(r) = EndTurnAs(q, "stop")
    BY <1>2, <1>4
  <2> QED
    BY <1>1, <1>4, <2>1, EndTurnAsIs DEF Same
<1> QED
  BY <1>3, <1>4

LEMMA ConfirmIs ==
  ASSUME NEW r \in TaskType, NEW c
  PROVE  LET q == Confirm(r, c) IN
         /\ q.state = r.state /\ q.turn = r.turn /\ q.sends = r.sends /\ q.ending = r.ending
         /\ q.concluding = r.concluding /\ q.claim = r.claim /\ q.ask = r.ask
         /\ q.loaded = r.loaded /\ q.recheck = r.recheck /\ q.queued = r.queued
         /\ q.after = r.after /\ q.confirmed = c.gone /\ q.leftover = c.named
BY DEF Confirm, TaskType

-----------------------------------------------------------------------------
\* Every step keeps the task's record a record of its type.
LEMMA TaskTypedStep ==
  ASSUME TaskAssumption, Typed, Begun, Next PROVE task' \in TaskType
<1>0. /\ task \in TaskType /\ task.turn \in TurnType /\ task.turn.n \in 0 .. MaxTurns
      /\ task.sends \subseteq SendType /\ task.ending \subseteq Turns
      /\ task.concluding \subseteq ConclusionType /\ task.leftover \subseteq Procs
      /\ task.after \in SETTLE_STATES /\ SETTLE_STATES \subseteq States
  BY DEF Typed, TaskType, TurnType, States
<1>a. 0 \in 0 .. MaxTurns /\ 0 \in 0 .. MaxTurns + 1
  BY TaskAssumption DEF TaskAssumption
<1>1. CASE UNCHANGED task
  BY <1>0, <1>1
<1>2. CASE Create \/ OpeningFails
  BY <1>0, <1>2 DEF Create, OpeningFails, TaskType, States, OVER
<1>3. CASE Opened \/ Turn \/ Resumed
  <2> DEFINE r == [task EXCEPT !.loaded = TRUE]
  <2>1. r \in TaskType /\ r.turn = task.turn
    BY <1>0 DEF TaskType
  <2>2. task' \in {task, BeginTurn(task), BeginTurn(r)} /\ task.turn.n < MaxTurns
    BY <1>3, TaskAssumption DEF Opened, Turn, Resumed, Begun, TaskAssumption
  <2> HIDE DEF r
  <2> QED
    BY <1>0, <2>1, <2>2, BeginTurnTyped
<1>4. CASE Sends
  <2>1. PICK s \in task.sends : SendAnswered(s) \/ SendFailed(s) \/ SendTimesOut(s)
    BY <1>4 DEF Sends
  <2> DEFINE r == [task EXCEPT !.sends = @ \ {s}]
  <2>2. /\ r \in TaskType /\ r.turn = task.turn /\ task.turn.n # 0
        /\ s.n \in Turns /\ s.n \in 0 .. MaxTurns
    BY <1>0, <2>1 DEF TaskType, Begun, SendType, Turns
  <2> HIDE DEF r
  <2>3. CASE SendAnswered(s)
    <3>1. task' = Began(r, s.n)
      BY <2>3 DEF SendAnswered, r
    <3> QED
      BY <2>2, <3>1, BeganTyped
  <2>4. CASE SendTimesOut(s)
    <3>1. task' = EndTurnAs(r, "turn_start_timeout") /\ "turn_start_timeout" \in Reasons
      BY <2>4 DEF SendTimesOut, Reasons, r
    <3> QED
      BY <2>2, <3>1, EndTurnAsTyped
  <2>5. CASE SendFailed(s)
    <3> DEFINE q == [task.turn EXCEPT !.reason = "completed", !.failed = TRUE]
               c == task.concluding \cup {[by |-> "send", n |-> s.n, at |-> "cleanup"]}
               d == task.sends \ {s}
    <3>1. q \in TurnType
      BY <1>0 DEF TurnType, Reasons
    <3>2. c \subseteq ConclusionType
      BY <1>0, <2>2 DEF ConclusionType
    <3>3. d \subseteq SendType
      BY <1>0
    <3>4. task' = [task EXCEPT !.sends = d, !.turn = q, !.concluding = c]
      BY <1>0, <2>5 DEF SendFailed, TaskType
    <3> HIDE DEF q, c, d
    <3>5. [task EXCEPT !.sends = d, !.turn = q, !.concluding = c] \in TaskType
      BY <1>0, <3>1, <3>2, <3>3 DEF TaskType
    <3> QED
      BY <3>4, <3>5
  <2> QED
    BY <2>1, <2>3, <2>4, <2>5
<1>5. CASE Consumes
  <2>1. codex.inbox \in Seq(MessageType) /\ Message \in MessageType /\ task.turn.n \in Turns
    <3>1. codex.inbox \in Seq(MessageType) /\ codex.inbox # <<>>
      BY <1>5 DEF Consumes, TurnStarted, TurnCompleted, CodexRequest, Arrives, Typed, CodexType
    <3> QED
      BY <1>0, <3>1, HeadTailProperties DEF Message, Begun, Turns
  <2>2. CASE TurnStarted
    BY <1>0, <2>1, <2>2, BeganTyped DEF TurnStarted, MessageType
  <2>3. CASE TurnCompleted
    <3> DEFINE q == [task.turn EXCEPT !.failed = Message.failed, !.done = TRUE]
               v == [q EXCEPT !.reason = "completed"]
               c == task.concluding \cup
                      {[by |-> "consumer", n |-> task.turn.n, at |-> "cleanup"]}
               e == IF task.ask /\ task.state = "waiting_on_you" THEN "running" ELSE task.state
    <3>1. q \in TurnType /\ v \in TurnType
      BY <1>0, <2>1 DEF TurnType, MessageType, Reasons
    <3>2. c \subseteq ConclusionType
      BY <1>0, <2>1 DEF ConclusionType
    <3>3. e \in States
      BY <1>0 DEF States, TURN_STATES, TaskType
    <3>4. task' \in {task, [task EXCEPT !.turn = q],
                     [task EXCEPT !.ask = FALSE, !.state = e, !.turn = v, !.concluding = c]}
      BY <1>0, <2>3, ZenonT(50) DEF TurnCompleted, Resolved, TaskType, TurnType
    <3> HIDE DEF q, v, c, e
    <3>5. [task EXCEPT !.turn = q] \in TaskType
      BY <1>0, <3>1 DEF TaskType
    <3>6. [task EXCEPT !.ask = FALSE, !.state = e, !.turn = v, !.concluding = c] \in TaskType
      BY <1>0, <3>1, <3>2, <3>3 DEF TaskType
    <3> QED
      BY <1>0, <3>4, <3>5, <3>6
  <2>4. CASE CodexRequest
    BY <1>0, <2>4, ZenonT(50) DEF CodexRequest, TaskType, States, TURN_STATES
  <2> QED
    BY <1>5, <2>2, <2>3, <2>4 DEF Consumes
<1>6. CASE StepCap \/ Policies
  <2>1. PICK why \in Reasons : task' = EndTurnAs(task, why)
    BY <1>6 DEF StepCap, Policies, PolicyFires, Reasons
  <2>2. task.turn.n # 0
    BY <1>0, <1>6
       DEF StepCap, Policies, PolicyFires, Begun, TurnType, Under, InTurn, TURN_STATES
  <2> QED
    BY <1>0, <2>1, <2>2, EndTurnAsTyped
<1>7. CASE Answer
  BY <1>0, <1>7, ResolvedTyped DEF Answer
<1>8. CASE SteerWithoutTurn \/ Steer \/ Steered \/ PolicyDue
  <2> DEFINE t == [task.turn EXCEPT !.due = TRUE]
  <2>1. task' \in {task, [task EXCEPT !.queued = TRUE]}
          \/ (PolicyDue /\ task' = [task EXCEPT !.turn = t])
    BY <1>0, <1>8 DEF SteerWithoutTurn, Steer, Steered, PolicyDue, TaskType
  <2>2. PolicyDue => t \in TurnType
    BY <1>0, TurnWith DEF PolicyDue, Begun
  <2> HIDE DEF t
  <2>3. /\ [task EXCEPT !.queued = TRUE] \in TaskType
        /\ PolicyDue => [task EXCEPT !.turn = t] \in TaskType
    BY <1>0, <2>2 DEF TaskType
  <2> QED
    BY <1>0, <2>1, <2>3
<1>9. CASE Stop \/ Cancel
  <2> DEFINE r == [task EXCEPT !.endAfterSettle = TRUE]
  <2>1. r \in TaskType /\ r.turn = task.turn /\ r.state = task.state
    BY <1>0 DEF TaskType
  <2>2. task.state \in TURN_STATES => task.turn.n # 0
    BY DEF Begun, Under, InTurn
  <2>3. task' \in {Stopped(task), Stopped(r)}
    BY <1>9 DEF Stop, Cancel
  <2> HIDE DEF r
  <2> QED
    BY <1>0, <2>1, <2>2, <2>3, StoppedTyped
<1>10. CASE Interrupts \/ EndSequences
  <2>1. PICK n \in Turns : Interrupted(n) \/ EndSequence(n)
    BY <1>10 DEF Interrupts, EndSequences
  <2> DEFINE c == task.concluding \cup {[by |-> "sequence", n |-> n, at |-> "cleanup"]}
             d == task.ending \ {n}
  <2>2. c \subseteq ConclusionType /\ d \subseteq Turns
    BY <1>0 DEF ConclusionType
  <2>3. task' \in {task, [task EXCEPT !.ending = d, !.concluding = c]}
    BY <1>0, <2>1 DEF Interrupted, EndSequence
  <2> HIDE DEF c, d
  <2>4. [task EXCEPT !.ending = d, !.concluding = c] \in TaskType
    BY <1>0, <2>2 DEF TaskType
  <2> QED
    BY <1>0, <2>3, <2>4
<1>11. CASE Conclusions
  <2>1. PICK c \in task.concluding : Conclude(c)
    BY <1>11 DEF Conclusions
  <2>2. PICK found \in Cleanups({}) :
          LET r == [Confirm(task, found) EXCEPT !.active = 0, !.concluding = @ \ {c}]
              target == FINAL_STATE[r.turn.reason]
          IN task' = IF ~found.gone
                    THEN [r EXCEPT !.after = target, !.queued = FALSE, !.state = "leftover"]
                    ELSE IF r.queued /\ r.turn.reason = "completed" /\ ~r.turn.failed
                    THEN [r EXCEPT !.concluding = @ \cup {[c EXCEPT !.at = "follow"]}]
                    ELSE [r EXCEPT !.queued = FALSE, !.state = target]
    BY <2>1 DEF Conclude
  <2> DEFINE k == Confirm(task, found)
             m == k.concluding \ {c}
             r == [k EXCEPT !.active = 0, !.concluding = m]
             u == r.concluding \cup {[c EXCEPT !.at = "follow"]}
             target == FINAL_STATE[r.turn.reason]
  <2>3. k \in TaskType
    BY <1>0, ConfirmTyped DEF Typed
  <2> HIDE DEF k
  <2>4. m \subseteq ConclusionType
    BY <2>3 DEF TaskType
  <2> HIDE DEF m
  <2>5. r \in TaskType
    BY <1>a, <2>3, <2>4 DEF TaskType
  <2> HIDE DEF r
  <2>6. target \in SETTLE_STATES
    BY <2>5 DEF FINAL_STATE, TaskType, TurnType, SETTLE_STATES
  <2> HIDE DEF target
  <2>7. u \subseteq ConclusionType
    BY <1>0, <2>1, <2>5 DEF TaskType, ConclusionType
  <2> HIDE DEF u
  <2>8. /\ [r EXCEPT !.after = target, !.queued = FALSE, !.state = "leftover"] \in TaskType
        /\ [r EXCEPT !.concluding = u] \in TaskType
        /\ [r EXCEPT !.queued = FALSE, !.state = target] \in TaskType
    BY <1>0, <2>5, <2>6, <2>7, ZenonT(50) DEF TaskType, States
  <2>9. task' \in {[r EXCEPT !.after = target, !.queued = FALSE, !.state = "leftover"],
                   [r EXCEPT !.concluding = u], [r EXCEPT !.queued = FALSE, !.state = target]}
    BY <2>2, <2>5 DEF k, m, r, u, target
  <2> QED
    BY <2>8, <2>9
<1>12. CASE FollowOns
  <2>1. PICK c \in task.concluding : FollowOn(c)
    BY <1>12 DEF FollowOns
  <2> DEFINE m == task.concluding \ {c}
             r == [task EXCEPT !.concluding = m]
             target == FINAL_STATE[r.turn.reason]
  <2>2. m \subseteq ConclusionType
    BY <1>0
  <2> HIDE DEF m
  <2>3. r \in TaskType /\ r.turn = task.turn
    BY <1>0, <2>2 DEF TaskType
  <2>4. \/ task' = BeginTurn(r) /\ task.turn.n < MaxTurns
        \/ task' = [r EXCEPT !.queued = FALSE, !.state = target]
    BY <2>1 DEF FollowOn, m
  <2> HIDE DEF r
  <2>5. target \in SETTLE_STATES
    BY <2>3 DEF FINAL_STATE, TaskType, TurnType, SETTLE_STATES
  <2> HIDE DEF target
  <2>6. [r EXCEPT !.queued = FALSE, !.state = target] \in TaskType
    BY <1>0, <2>3, <2>5 DEF TaskType
  <2> QED
    BY <2>3, <2>4, <2>6, BeginTurnTyped
<1>13. CASE StopLeftovers \/ LeftoversStopped
  <2>1. CASE LeftoversStopped
    <3>1. PICK found \in Cleanups(task.leftover) :
            task' = [Confirm(task, found) EXCEPT !.state = IF found.gone THEN task.after ELSE @]
      BY <2>1 DEF LeftoversStopped
    <3> DEFINE k == Confirm(task, found)
    <3>2. k \in TaskType
      BY <1>0, ConfirmTyped DEF Typed
    <3>3. task' = [k EXCEPT !.state = IF found.gone THEN task.after ELSE @]
      BY <3>1
    <3> HIDE DEF k
    <3> QED
      BY <1>0, <3>2, <3>3 DEF TaskType
  <2> QED
    BY <1>1, <1>13, <2>1 DEF StopLeftovers
<1>14. CASE RecheckBegins \/ Recheck
  <2>1. CASE RecheckBegins
    BY <1>0, <2>1 DEF RecheckBegins, TaskType
  <2>2. CASE Recheck
    <3> DEFINE r == [task EXCEPT !.recheck = {}]
    <3>1. r \in TaskType
      BY <1>0 DEF TaskType
    <3>2. task' \in {r, [r EXCEPT !.confirmed = TRUE, !.leftover = {}, !.state = task.after]}
      BY <2>2 DEF Recheck
    <3> HIDE DEF r
    <3>3. [r EXCEPT !.confirmed = TRUE, !.leftover = {}, !.state = task.after] \in TaskType
      BY <1>0, <3>1 DEF TaskType
    <3> QED
      BY <3>1, <3>2, <3>3
  <2> QED
    BY <1>14, <2>1, <2>2
<1>15. CASE ClaimSettle \/ ClaimExpires
  BY <1>0, <1>15, TaskAssumption DEF ClaimSettle, ClaimExpires, TaskType, TaskAssumption
<1>16. CASE Settles
  <2>1. task' \in {[task EXCEPT !.claim = 0, !.leftover = {}],
                   [[task EXCEPT !.claim = 0, !.leftover = {}] EXCEPT !.state = "idle"]}
    BY <1>16 DEF Settles, Settle, Settled
  <2>2. [task EXCEPT !.claim = 0, !.leftover = {}] \in TaskType
    BY <1>0, <1>a DEF TaskType
  <2>3. \A q \in TaskType : [q EXCEPT !.state = "idle"] \in TaskType
    BY DEF TaskType, States
  <2> QED
    BY <2>1, <2>2, <2>3
<1>17. CASE Ended
  <2> DEFINE m == {c \in task.concluding : c.by # "consumer"}
  <2>1. m \subseteq ConclusionType
    BY <1>0
  <2>2. task' = [task EXCEPT !.loaded = FALSE, !.state = "ended", !.concluding = m]
    BY <1>17 DEF Ended
  <2> HIDE DEF m
  <2> QED
    BY <1>0, <2>1, <2>2 DEF TaskType, States, OVER
<1>18. CASE (\E n \in Turns : CodexTakes(n)) \/ CodexEnds
  <2>1. PICK n : \/ CodexTakes(n)
                 \/ CodexEnds
    BY <1>18
  <2> DEFINE a == {IF s.n = n THEN [s EXCEPT !.answer = "taken"] ELSE s : s \in task.sends}
             b == {IF s.answer = "none" THEN [s EXCEPT !.answer = "gone"] ELSE s : s \in task.sends}
  <2>2. a \subseteq SendType /\ b \subseteq SendType
    BY <1>0 DEF SendType
  <2>3. task' \in {[task EXCEPT !.sends = a], [task EXCEPT !.sends = b]}
    BY <1>0, <2>1 DEF CodexTakes, CodexEnds, TaskType
  <2> HIDE DEF a, b
  <2>4. [task EXCEPT !.sends = a] \in TaskType /\ [task EXCEPT !.sends = b] \in TaskType
    BY <1>0, <2>2 DEF TaskType
  <2> QED
    BY <2>3, <2>4
<1>19. CASE TaskTold
  <2> DEFINE r == [task EXCEPT !.loaded = FALSE]
             q == [task.turn EXCEPT !.began = TRUE, !.done = TRUE]
             e == [r EXCEPT !.turn = q]
  <2>1. r \in TaskType /\ r.turn = task.turn
    BY <1>0 DEF TaskType
  <2>2. q \in TurnType /\ q.n = task.turn.n
    BY <1>0 DEF TurnType
  <2>3. task' = IF InTurn \/ task.state = "stopping" THEN EndTurnAs(e, "crash") ELSE r
    BY <1>0, <1>19 DEF TaskTold, TaskType, TurnType
  <2> HIDE DEF r, q
  <2>4. e \in TaskType /\ e.turn = q
    BY <2>1, <2>2 DEF TaskType
  <2>5. "crash" \in Reasons
    BY DEF Reasons
  <2> HIDE DEF e
  <2>6. InTurn \/ task.state = "stopping" => e.turn.n # 0
    BY <2>2, <2>4 DEF Begun, Under
  <2> QED
    BY <2>1, <2>3, <2>4, <2>5, <2>6, EndTurnAsTyped
<1>20. CASE Restart
  <2> DEFINE state == IF InTurn \/ task.state \in {"opening", "stopping"} THEN "uncertain" ELSE task.state
             q == Started(task.turn.n)
             r == [NewTask EXCEPT !.turn = q, !.state = state]
  <2>1. q \in TurnType /\ state \in States
    BY <1>0 DEF Started, TurnType, Reasons, States, SETTLE_STATES, TaskType
  <2>2. NewTask \in TaskType
    BY TaskAssumption DEF NewTask, TaskType, TurnType, Started, Reasons, States, SETTLE_STATES, TaskAssumption
  <2>3. \/ task' = [r EXCEPT !.confirmed = TRUE]
        \/ \E found \in RecordedCleanups(procs \cap recorded) :
             task' \in {Confirm(r, found), [Confirm(r, found) EXCEPT !.state = "leftover", !.after = Left(state)]}
    BY <1>20 DEF Restart
  <2>4. \A found \in RecordedCleanups(procs \cap recorded) : found.gone \in BOOLEAN /\ found.named \subseteq Procs
    <3>1. ASSUME NEW left \in SUBSET Procs,
                 NEW found, found = [gone |-> left = {}, named |-> left, left |-> left, kept |-> left]
          PROVE  found.gone \in BOOLEAN /\ found.named \subseteq Procs
      BY <3>1
    <3>2. ASSUME NEW found, found = [gone |-> recorded = {}, named |-> {},
                                     left |-> procs \cap recorded, kept |-> recorded]
          PROVE  found.gone \in BOOLEAN /\ found.named \subseteq Procs
      BY <3>2
    <3> QED
      BY <3>1, <3>2 DEF RecordedCleanups, Typed
  <2> HIDE DEF q, state
  <2>5. r \in TaskType
    BY <2>1, <2>2 DEF TaskType
  <2>6. Left(state) \in SETTLE_STATES
    BY DEF Left, SETTLE_STATES
  <2> HIDE DEF r
  <2>7. [r EXCEPT !.confirmed = TRUE] \in TaskType
    BY <2>5 DEF TaskType
  <2>8. \A found \in RecordedCleanups(procs \cap recorded) :
             Confirm(r, found) \in TaskType
    BY <2>4, <2>5 DEF Confirm, TaskType
  <2>9. \A k \in TaskType : [k EXCEPT !.state = "leftover", !.after = Left(state)] \in TaskType
    BY <2>6 DEF TaskType, States
  <2> QED
    BY <2>3, <2>7, <2>8, <2>9
<1> QED
  BY <1>1, <1>2, <1>3, <1>4, <1>5, <1>6, <1>7, <1>8, <1>9, <1>10, <1>11, <1>12, <1>13, <1>14,
     <1>15, <1>16, <1>17, <1>18, <1>19, <1>20
     DEF Next, ResumeFails, Delete, CodexAsks, CodexCompletes, CommandStarts, CommandEnds,
         CommandStrays, Sample, CodexStarts, OthersLock, outside

\* The other variables keep their types too.
LEMMA CodexTypedStep ==
  ASSUME TaskAssumption, Typed, Begun, Next
  PROVE  codex' \in CodexType /\ Len(codex'.inbox) <= MaxInbox
<1>0. /\ codex \in CodexType /\ codex.inbox \in Seq(MessageType) /\ Len(codex.inbox) \in Nat
      /\ codex.starts \subseteq Turns /\ codex.turn \in 0 .. MaxTurns
      /\ MaxTurns \in Nat /\ MaxInbox \in Nat /\ Len(codex.inbox) <= MaxInbox
      /\ task \in TaskType /\ task.turn.n \in 0 .. MaxTurns /\ 0 \in 0 .. MaxTurns
  BY TaskAssumption DEF Typed, CodexType, TaskAssumption, TaskType, TurnType
<1>1. ASSUME NEW c, c \in CodexType, c.inbox = codex.inbox, codex' = c
      PROVE  codex' \in CodexType /\ Len(codex'.inbox) <= MaxInbox
  BY <1>0, <1>1
<1>2. ASSUME NEW c, c \in CodexType, c.inbox = codex.inbox, codex' = Responds(c)
      PROVE  codex' \in CodexType /\ Len(codex'.inbox) <= MaxInbox
  <2> DEFINE b == c.asking /\ ~(task.ask /\ ~task'.ask)
  <2>1. codex' = [c EXCEPT !.asking = b]
    BY <1>2 DEF Responds, CodexType
  <2>2. b \in BOOLEAN
    OBVIOUS
  <2> HIDE DEF b
  <2>3. [c EXCEPT !.asking = b] \in CodexType /\ [c EXCEPT !.asking = b].inbox = c.inbox
    BY <1>2, <2>2 DEF CodexType
  <2> QED
    BY <1>0, <1>2, <2>1, <2>3
\* A message more, for a turn that ends, begins or asks.
<1>3. ASSUME NEW m \in MessageType, Len(codex.inbox) < MaxInbox, NEW c, c \in CodexType,
             c.inbox = codex.inbox, codex' = [c EXCEPT !.inbox = Append(codex.inbox, m)]
      PROVE  codex' \in CodexType /\ Len(codex'.inbox) <= MaxInbox
  <2> DEFINE i == Append(codex.inbox, m)
  <2>1. i \in Seq(MessageType) /\ Len(i) = Len(codex.inbox) + 1
    BY <1>0, <1>3, AppendProperties
  <2> HIDE DEF i
  <2>2. [c EXCEPT !.inbox = i] \in CodexType /\ [c EXCEPT !.inbox = i].inbox = i
    BY <1>3, <2>1 DEF CodexType
  <2> QED
    BY <1>0, <1>3, <2>1, <2>2 DEF i
<1>4. ASSUME NEW kind, Arrives(kind)
      PROVE  Taken \in CodexType /\ Len(Taken.inbox) <= MaxInbox
  <2>1. codex.inbox # <<>>
    BY <1>4 DEF Arrives
  <2> DEFINE i == Tail(codex.inbox)
  <2>2. i \in Seq(MessageType) /\ Len(i) = Len(codex.inbox) - 1
    BY <1>0, <2>1, HeadTailProperties
  <2> HIDE DEF i
  <2>3. [codex EXCEPT !.inbox = i] \in CodexType /\ [codex EXCEPT !.inbox = i].inbox = i
    BY <1>0, <2>2 DEF CodexType
  <2>4. Taken = [codex EXCEPT !.inbox = i]
    BY DEF Taken, i, CodexType
  <2> QED
    BY <1>0, <2>2, <2>3, <2>4
<1>5. CASE UNCHANGED codex
  BY <1>0, <1>5
<1>6. ASSUME NEW x \in SUBSET Turns, codex' = [codex EXCEPT !.starts = x]
      PROVE  codex' \in CodexType /\ Len(codex'.inbox) <= MaxInbox
  <2>1. /\ [codex EXCEPT !.starts = x] \in CodexType
        /\ [codex EXCEPT !.starts = x].inbox = codex.inbox
    BY <1>0 DEF CodexType
  <2> QED
    BY <1>1, <1>6, <2>1
<1>7. ASSUME AsksCodex, task.turn.n < MaxTurns
      PROVE  codex' \in CodexType /\ Len(codex'.inbox) <= MaxInbox
  <2> DEFINE a == IF codex.up THEN codex.starts \cup {task.turn.n + 1} ELSE codex.starts
  <2>1. a \subseteq Turns
    BY <1>0, <1>7 DEF Turns
  <2>2. codex' = [codex EXCEPT !.starts = a]
    BY <1>0, <1>7 DEF AsksCodex, CodexType
  <2> HIDE DEF a
  <2> QED
    BY <1>6, <2>1, <2>2
<1>8. CASE Opened \/ Turn
  <2>1. task.turn.n < MaxTurns /\ (AsksCodex \/ codex' = codex)
    BY <1>8, TaskAssumption DEF Opened, Turn, Begun, TaskAssumption
  <2> QED
    BY <1>5, <1>7, <2>1
<1>9. CASE Resumed
  <2> DEFINE a == codex.starts \cup {task.turn.n + 1}
  <2>1. a \subseteq Turns
    BY <1>0, <1>9 DEF Resumed, Begun, Turns
  <2>2. <<>> \in Seq(MessageType) /\ Len(<<>>) = 0
    OBVIOUS
  <2>3. codex' = [codex EXCEPT !.starts = a, !.inbox = <<>>]
    BY <1>9 DEF Resumed
  <2> HIDE DEF a
  <2> DEFINE e == <<>>
  <2> HIDE DEF e
  <2>4. e \in Seq(MessageType) => /\ [codex EXCEPT !.starts = a, !.inbox = e] \in CodexType
                                  /\ [codex EXCEPT !.starts = a, !.inbox = e].inbox = e
    BY <1>0, <2>1 DEF CodexType
  <2> QED
    BY <1>0, <2>2, <2>3, <2>4 DEF e
<1>10. CASE Sends
  <2>1. PICK s \in task.sends : SendAnswered(s) \/ SendFailed(s) \/ SendTimesOut(s)
    BY <1>10 DEF Sends
  <2>2. s.n \in Turns
    BY <1>0 DEF TaskType, SendType
  <2>3. CASE SendAnswered(s)
    BY <1>5, <2>3 DEF SendAnswered, outside
  <2>4. CASE SendTimesOut(s)
    BY <1>0, <1>2, <2>4 DEF SendTimesOut
  <2>5. CASE SendFailed(s)
    <3> DEFINE x == codex.starts \ {s.n}
    <3>1. x \in SUBSET Turns /\ codex' = [codex EXCEPT !.starts = x]
      BY <1>0, <2>5 DEF SendFailed
    <3> QED
      BY <1>6, <3>1
  <2> QED
    BY <2>1, <2>3, <2>4, <2>5
<1>11. CASE Consumes
  <2>1. CASE TurnStarted
    BY <1>4, <2>1 DEF TurnStarted
  <2>2. CASE TurnCompleted
    <3> DEFINE b == Taken.asking /\ ~(task.ask /\ ~task'.ask)
    <3>1. Taken \in CodexType /\ Len(Taken.inbox) <= MaxInbox
      BY <1>4, <2>2 DEF TurnCompleted
    <3>2. codex' = [Taken EXCEPT !.asking = b]
      BY <2>2, <3>1 DEF TurnCompleted, Responds, CodexType
    <3>3. b \in BOOLEAN
      OBVIOUS
    <3> HIDE DEF b
    <3> QED
      BY <3>1, <3>2, <3>3 DEF CodexType
  <2>3. CASE CodexRequest
    <3> DEFINE b == Taken.asking /\ Offered
    <3>1. Taken \in CodexType /\ Len(Taken.inbox) <= MaxInbox
      BY <1>4, <2>3 DEF CodexRequest
    <3>2. codex' = [Taken EXCEPT !.asking = b]
      BY <2>3, <3>1 DEF CodexRequest, Declined, CodexType
    <3>3. b \in BOOLEAN
      BY DEF Offered, InTurn
    <3> HIDE DEF b
    <3> QED
      BY <3>1, <3>2, <3>3 DEF CodexType
  <2> QED
    BY <1>11, <2>1, <2>2, <2>3 DEF Consumes
<1>12. CASE StepCap \/ Policies \/ Answer \/ Stop \/ Cancel
  <2>1. codex' = Responds(codex)
    BY <1>12 DEF StepCap, Policies, PolicyFires, Answer, Stop, Cancel
  <2> QED
    BY <1>0, <1>2, <2>1
<1>13. CASE Interrupts \/ EndSequences
  <2>1. PICK n \in Turns : Interrupted(n) \/ EndSequence(n)
    BY <1>13 DEF Interrupts, EndSequences
  <2>2. CASE Interrupted(n)
    <3> DEFINE m == [kind |-> "completed", n |-> codex.turn, failed |-> TRUE]
               c == [codex EXCEPT !.turn = 0, !.asking = FALSE]
    <3>1. m \in MessageType
      BY <1>0 DEF MessageType
    <3>2. c \in CodexType /\ c.inbox = codex.inbox
      BY <1>0 DEF CodexType
    <3>3. codex' = [c EXCEPT !.inbox = Append(codex.inbox, m)] /\ Len(codex.inbox) < MaxInbox
      BY <1>0, <2>2 DEF Interrupted, CodexType
    <3> HIDE DEF m, c
    <3> QED
      BY <1>3, <3>1, <3>2, <3>3
  <2>3. CASE EndSequence(n)
    <3>1. codex' = codex \/ codex' = [codex EXCEPT !.starts = {}]
      BY <2>3 DEF EndSequence
    <3> QED
      BY <1>5, <1>6, <3>1
  <2> QED
    BY <2>1, <2>2, <2>3
<1>14. CASE FollowOns
  <2>1. PICK c \in task.concluding : FollowOn(c)
    BY <1>14 DEF FollowOns
  <2> QED
    BY <1>7, <1>5, <2>1 DEF FollowOn
<1>15. CASE \E n \in Turns : CodexTakes(n)
  <2>1. PICK n \in Turns : CodexTakes(n)
    BY <1>15
  <2> DEFINE m == [kind |-> "started", n |-> n, failed |-> FALSE]
             d == codex.starts \ {n}
             c == [codex EXCEPT !.starts = d, !.turn = n]
  <2>2. m \in MessageType /\ d \subseteq Turns /\ n \in 0 .. MaxTurns
    BY <1>0, <2>1 DEF MessageType, Turns
  <2>3. codex' = [c EXCEPT !.inbox = Append(codex.inbox, m)] /\ Len(codex.inbox) < MaxInbox
    BY <1>0, <2>1 DEF CodexTakes, CodexType
  <2> HIDE DEF d
  <2>4. c \in CodexType /\ c.inbox = codex.inbox
    BY <1>0, <2>2 DEF CodexType
  <2> HIDE DEF m, c
  <2> QED
    BY <1>3, <2>2, <2>3, <2>4
<1>16. CASE CodexAsks \/ \E failed \in BOOLEAN : CodexCompletes(failed)
  <2>1. PICK m \in MessageType, c \in {[codex EXCEPT !.asking = TRUE], [codex EXCEPT !.turn = 0]} :
          codex' = [c EXCEPT !.inbox = Append(codex.inbox, m)] /\ Len(codex.inbox) < MaxInbox
    <3>1. CASE CodexAsks
      <4> DEFINE m == [kind |-> "asks", n |-> codex.turn, failed |-> FALSE]
                 c == [codex EXCEPT !.asking = TRUE]
      <4>1. m \in MessageType
        BY <1>0 DEF MessageType
      <4>2. codex' = [c EXCEPT !.inbox = Append(codex.inbox, m)] /\ Len(codex.inbox) < MaxInbox
        BY <1>0, <3>1 DEF CodexAsks, CodexType
      <4> HIDE DEF m
      <4> QED
        BY <4>1, <4>2
    <3>2. ASSUME NEW failed \in BOOLEAN, CodexCompletes(failed)
          PROVE  \E m \in MessageType, c \in {[codex EXCEPT !.asking = TRUE], [codex EXCEPT !.turn = 0]} :
                   codex' = [c EXCEPT !.inbox = Append(codex.inbox, m)] /\ Len(codex.inbox) < MaxInbox
      <4> DEFINE m == [kind |-> "completed", n |-> codex.turn, failed |-> failed]
                 c == [codex EXCEPT !.turn = 0]
      <4>1. m \in MessageType
        BY <1>0 DEF MessageType
      <4>2. codex' = [c EXCEPT !.inbox = Append(codex.inbox, m)] /\ Len(codex.inbox) < MaxInbox
        BY <1>0, <3>2 DEF CodexCompletes, CodexType
      <4> HIDE DEF m
      <4> QED
        BY <4>1, <4>2
    <3> QED
      BY <1>16, <3>1, <3>2
  <2>2. /\ [codex EXCEPT !.asking = TRUE] \in CodexType
        /\ [codex EXCEPT !.asking = TRUE].inbox = codex.inbox
    BY <1>0 DEF CodexType
  <2>3. /\ [codex EXCEPT !.turn = 0] \in CodexType
        /\ [codex EXCEPT !.turn = 0].inbox = codex.inbox
    BY <1>0 DEF CodexType
  <2>4. c \in CodexType /\ c.inbox = codex.inbox
    BY <2>2, <2>3
  <2> QED
    BY <1>3, <2>1, <2>4
<1>17. CASE CodexEnds \/ CodexStarts
  <2> DEFINE c == [codex EXCEPT !.up = FALSE, !.told = FALSE, !.turn = 0, !.asking = FALSE,
                                !.starts = {}]
  <2>1. c \in CodexType /\ c.inbox = codex.inbox
    BY <1>0 DEF CodexType
  <2>2. /\ [codex EXCEPT !.up = TRUE] \in CodexType
        /\ [codex EXCEPT !.up = TRUE].inbox = codex.inbox
    BY <1>0 DEF CodexType
  <2>3. codex' \in {c, [codex EXCEPT !.up = TRUE]}
    BY <1>17 DEF CodexEnds, CodexStarts
  <2> HIDE DEF c
  <2> QED
    BY <1>1, <2>1, <2>2, <2>3
<1>18. CASE TaskTold
  <2>1. /\ [codex EXCEPT !.told = TRUE] \in CodexType
        /\ [codex EXCEPT !.told = TRUE].inbox = codex.inbox
    BY <1>0 DEF CodexType
  <2> QED
    BY <1>2, <1>18, <2>1 DEF TaskTold
<1>19. CASE Restart
  <2>1. codex' = [up |-> TRUE, told |-> TRUE, turn |-> 0, asking |-> FALSE, starts |-> {},
                  inbox |-> <<>>]
    BY <1>19 DEF Restart
  <2>2. <<>> \in Seq(MessageType) /\ Len(<<>>) = 0
    OBVIOUS
  <2> QED
    BY <1>0, <2>1, <2>2 DEF CodexType
<1>20. CASE \/ Create \/ OpeningFails \/ ResumeFails \/ SteerWithoutTurn \/ Steer \/ Steered
            \/ Conclusions \/ StopLeftovers \/ LeftoversStopped \/ RecheckBegins \/ Recheck
            \/ ClaimSettle \/ ClaimExpires \/ Settles \/ Delete \/ Ended \/ OthersLock
            \/ PolicyDue \/ Sample
            \/ \E p \in Procs : CommandStarts(p) \/ CommandEnds(p) \/ CommandStrays(p)
  BY <1>5, <1>20
     DEF Create, OpeningFails, ResumeFails, SteerWithoutTurn, Steer, Steered, Conclusions, Conclude,
         StopLeftovers, LeftoversStopped, RecheckBegins, Recheck, ClaimSettle, ClaimExpires,
         Settles, Settle, Delete, Ended, OthersLock, CommandStarts, CommandEnds, CommandStrays,
         PolicyDue, Sample, outside
<1> QED
  BY <1>8, <1>9, <1>10, <1>11, <1>12, <1>13, <1>14, <1>15, <1>16, <1>17, <1>18, <1>19, <1>20
     DEF Next

LEMMA OthersTypedStep ==
  ASSUME TaskAssumption, Typed, Next
  PROVE  /\ holder' \in {"nobody", "turn", "steer", "stop_leftovers", "end"}
         /\ lock' \in {"free", "mine", "other"}
         /\ procs' \subseteq Procs /\ recorded' \subseteq Procs /\ astray' \subseteq procs'
         /\ concluded' \in [Turns -> 0 .. 2]
<1>1. holder' \in {"nobody", "turn", "steer", "stop_leftovers", "end"}
  BY DEF Next, Typed, Create, Opened, OpeningFails, Turn, Resumed, ResumeFails, Sends, SendAnswered,
         SendFailed, SendTimesOut, Consumes, TurnStarted, TurnCompleted, CodexRequest, StepCap,
         Answer, SteerWithoutTurn, Steer, Steered, Stop, Cancel, Policies, PolicyFires, Interrupts,
         Interrupted, EndSequences, EndSequence, Conclusions, Conclude, FollowOns, FollowOn,
         StopLeftovers, LeftoversStopped, RecheckBegins, Recheck, ClaimSettle, ClaimExpires,
         Settles, Settle, Delete, Ended, CodexTakes, CodexAsks, CodexCompletes, CommandStarts,
         CommandEnds, CommandStrays, Sample, PolicyDue, CodexEnds, TaskTold, CodexStarts,
         OthersLock, Restart
<1>2. lock' \in {"free", "mine", "other"}
  BY DEF Next, Typed, Create, Opened, OpeningFails, Turn, Resumed, ResumeFails, Sends, SendAnswered,
         SendFailed, SendTimesOut, Consumes, TurnStarted, TurnCompleted, CodexRequest, StepCap,
         Answer, SteerWithoutTurn, Steer, Steered, Stop, Cancel, Policies, PolicyFires, Interrupts,
         Interrupted, EndSequences, EndSequence, Conclusions, Conclude, FollowOns, FollowOn,
         StopLeftovers, LeftoversStopped, RecheckBegins, Recheck, ClaimSettle, ClaimExpires,
         Settles, Settle, Delete, Ended, CodexTakes, CodexAsks, CodexCompletes, CommandStarts,
         CommandEnds, CommandStrays, Sample, PolicyDue, CodexEnds, TaskTold, CodexStarts,
         OthersLock, Restart, LockTaken
<1>3. procs' \subseteq Procs /\ recorded' \subseteq Procs /\ astray' \subseteq procs'
  <2>1. CASE Conclusions \/ LeftoversStopped
    <3>1. PICK also \in SUBSET Procs : \E found \in Cleanups(also) : Cleaned(found)
      BY <2>1 DEF Conclusions, Conclude, LeftoversStopped, Typed, TaskType
    <3>2. PICK found \in Cleanups(also) : Cleaned(found)
      BY <3>1
    <3>3. found.named \subseteq Procs
      BY CleanupIs DEF Typed
    <3> QED
      BY <3>2, <3>3 DEF Cleaned, Typed
  <2>2. CASE Restart
    <3>1. \A found \in RecordedCleanups(procs \cap recorded) :
            found.left \subseteq Procs /\ found.kept \subseteq Procs
      <4>1. ASSUME NEW left \in SUBSET Procs, NEW found,
                   found = [gone |-> left = {}, named |-> left, left |-> left, kept |-> left]
            PROVE  found.left \subseteq Procs /\ found.kept \subseteq Procs
        BY <4>1
      <4>2. ASSUME NEW found, found = [gone |-> recorded = {}, named |-> {},
                                       left |-> procs \cap recorded, kept |-> recorded]
            PROVE  found.left \subseteq Procs /\ found.kept \subseteq Procs
        BY <4>2 DEF Typed
      <4> QED
        BY <4>1, <4>2 DEF RecordedCleanups, Typed
    <3>2. procs' \subseteq Procs /\ recorded' \subseteq Procs /\ astray' = procs'
      BY <2>2, <3>1 DEF Restart, Typed
    <3> QED
      BY <3>2
  <2>3. CASE \E p \in Procs : CommandStarts(p) \/ CommandEnds(p) \/ CommandStrays(p)
    BY <2>3 DEF CommandStarts, CommandEnds, CommandStrays, Typed
  <2>4. CASE Sample
    BY <2>4 DEF Sample, Found, Typed
  <2>5. CASE UNCHANGED <<procs, recorded, astray>>
    BY <2>5 DEF Typed
  <2> QED
    BY <2>1, <2>2, <2>3, <2>4, <2>5
       DEF Next, Create, Opened, OpeningFails, Turn, Resumed, ResumeFails, Sends, SendAnswered,
           SendFailed, SendTimesOut, Consumes, TurnStarted, TurnCompleted, CodexRequest, StepCap,
           Answer, SteerWithoutTurn, Steer, Steered, Stop, Cancel, PolicyDue, Policies,
           PolicyFires, Interrupts, Interrupted, EndSequences, EndSequence, FollowOns, FollowOn,
           StopLeftovers, RecheckBegins, Recheck, ClaimSettle, ClaimExpires,
           Settles, Settle, Delete, Ended, CodexTakes, CodexAsks, CodexCompletes, CodexEnds,
           TaskTold, CodexStarts, OthersLock, outside
<1>4. concluded' \in [Turns -> 0 .. 2]
  <2>1. CASE Conclusions
    <3>1. \/ concluded' = concluded
          \/ concluded' = [concluded EXCEPT ![task.turn.n] = IF @ = 2 THEN 2 ELSE @ + 1]
      BY <2>1 DEF Conclusions, Conclude
    <3> QED
      BY <3>1 DEF Typed
  <2>2. CASE UNCHANGED concluded
    BY <2>2 DEF Typed
  <2> QED
    BY <2>1, <2>2
       DEF Next, Create, Opened, OpeningFails, Turn, Resumed, ResumeFails, Sends, SendAnswered,
           SendFailed, SendTimesOut, Consumes, TurnStarted, TurnCompleted, CodexRequest, StepCap,
           Answer, SteerWithoutTurn, Steer, Steered, Stop, Cancel, Policies, PolicyFires, Interrupts,
           Interrupted, EndSequences, EndSequence, FollowOns, FollowOn, LeftoversStopped,
           StopLeftovers, RecheckBegins, Recheck, ClaimSettle, ClaimExpires, CommandStarts,
           CommandEnds, CommandStrays, Sample, PolicyDue, Settles, Settle, Delete, Ended,
           CodexTakes, CodexAsks, CodexCompletes, CodexEnds, TaskTold, CodexStarts, OthersLock,
           Restart, outside
<1> QED
  BY <1>1, <1>2, <1>3, <1>4

-----------------------------------------------------------------------------
(* What each action makes of the fields that the invariants speak of.      *)

Number(q, r) == /\ q.turn.n = r.turn.n /\ q.turn.reason = r.turn.reason
                /\ q.turn.due => r.turn.due
Work(q, r) == q.sends = r.sends /\ q.ending = r.ending /\ q.concluding = r.concluding
Rest(q, r) == q.claim = r.claim /\ q.loaded = r.loaded /\ q.recheck = r.recheck
Outcome(q, r) == q.confirmed = r.confirmed /\ q.leftover = r.leftover /\ q.after = r.after
Keeps(q, r) == /\ Number(q, r) /\ Work(q, r) /\ Rest(q, r) /\ Outcome(q, r)
               /\ q.ask = r.ask /\ q.stopRequested = r.stopRequested

LEMMA StateIs ==
  ASSUME NEW r \in TaskType, NEW s
  PROVE  LET q == [r EXCEPT !.state = s] IN Keeps(q, r) /\ q.state = s
BY DEF TaskType, Keeps, Number, Work, Rest, Outcome

LEMMA RespondsIs ==
  ASSUME NEW c \in CodexType
  PROVE  LET d == Responds(c) IN
         /\ d.up = c.up /\ d.told = c.told /\ d.turn = c.turn /\ d.starts = c.starts
         /\ d.inbox = c.inbox
         /\ d.asking => c.asking /\ (task.ask => task'.ask)
BY DEF Responds, CodexType

LEMMA SimpleIs ==
  ASSUME Typed
  PROVE  /\ Create => /\ task.state = "none" /\ task'.state = "opening" /\ Keeps(task', task)
                      /\ lock' = "mine" /\ holder' = holder /\ codex' = codex
         /\ OpeningFails => /\ task.state = "opening" /\ task'.state = "failed"
                            /\ Keeps(task', task) /\ holder' = holder /\ codex' = codex
         /\ ResumeFails => /\ task' = task /\ codex' = codex /\ holder' = "nobody" /\ lock' = lock
         /\ SteerWithoutTurn \/ Steer \/ Steered =>
              /\ task'.state = task.state /\ Keeps(task', task) /\ codex' = codex
              /\ holder' \in {"nobody", "steer"} /\ (lock = "mine" => lock' = "mine")
              /\ holder' = "steer" => task.turn.n < MaxTurns
         /\ ClaimSettle => /\ Free /\ NeedsSettle /\ task.confirmed /\ task'.state = task.state
                           /\ task'.claim = task.turn.n + 1 /\ Number(task', task)
                           /\ Work(task', task) /\ Outcome(task', task) /\ task'.ask = task.ask
                           /\ task'.loaded = task.loaded /\ task'.recheck = task.recheck
                           /\ codex' = codex /\ lock' = lock /\ holder' = holder
         /\ ClaimExpires => /\ task'.claim = 0 /\ Number(task', task) /\ task'.state = task.state
                            /\ Work(task', task) /\ Outcome(task', task) /\ task'.ask = task.ask
                            /\ task'.loaded = task.loaded /\ task'.recheck = task.recheck
                            /\ codex' = codex /\ lock' = lock /\ holder' = holder
         /\ PolicyDue => /\ task.ask /\ task.turn.reason = "running"
                         /\ task'.state = task.state /\ task'.turn.n = task.turn.n
                         /\ task'.turn.reason = task.turn.reason
                         /\ Work(task', task) /\ Rest(task', task) /\ Outcome(task', task)
                         /\ task'.ask = task.ask /\ task'.stopRequested = task.stopRequested
                         /\ codex' = codex /\ lock' = lock /\ holder' = holder
         /\ Sample => /\ task' = task /\ codex' = codex /\ lock' = lock /\ holder' = holder
<1>0. task \in TaskType
  BY DEF Typed
<1>1. \A s : [task EXCEPT !.state = s].state = s /\ Keeps([task EXCEPT !.state = s], task)
  BY <1>0, StateIs
<1>2. /\ [task EXCEPT !.queued = TRUE].state = task.state
      /\ Keeps([task EXCEPT !.queued = TRUE], task)
      /\ Keeps(task, task)
  BY <1>0 DEF TaskType, Keeps, Number, Work, Rest, Outcome
<1>3. Create => /\ task.state = "none" /\ task'.state = "opening" /\ Keeps(task', task)
                /\ lock' = "mine" /\ holder' = holder /\ codex' = codex
  BY <1>1 DEF Create, LockTaken, outside
<1>4. OpeningFails => /\ task.state = "opening" /\ task'.state = "failed"
                      /\ Keeps(task', task) /\ holder' = holder /\ codex' = codex
  BY <1>1 DEF OpeningFails, outside
<1>5. ResumeFails => /\ task' = task /\ codex' = codex /\ holder' = "nobody" /\ lock' = lock
  BY DEF ResumeFails, outside
<1>6. SteerWithoutTurn \/ Steer \/ Steered =>
              /\ task'.state = task.state /\ Keeps(task', task) /\ codex' = codex
              /\ holder' \in {"nobody", "steer"} /\ (lock = "mine" => lock' = "mine")
              /\ holder' = "steer" => task.turn.n < MaxTurns
  <2>1. SteerWithoutTurn \/ Steer \/ Steered => task' \in {task, [task EXCEPT !.queued = TRUE]}
    BY DEF SteerWithoutTurn, Steer, Steered
  <2>2. task' \in {task, [task EXCEPT !.queued = TRUE]}
          => task'.state = task.state /\ Keeps(task', task)
    BY <1>2
  <2> QED
    BY <2>1, <2>2 DEF SteerWithoutTurn, Steer, Steered, LockTaken, outside, Free
<1>7. \A x : LET q == [task EXCEPT !.claim = x] IN
             /\ q.claim = x /\ Number(q, task) /\ q.state = task.state
             /\ Work(q, task) /\ Outcome(q, task) /\ q.ask = task.ask
             /\ q.loaded = task.loaded /\ q.recheck = task.recheck
  BY <1>0 DEF TaskType, Number, Work, Outcome
<1>8. ClaimSettle =>
        /\ Free /\ NeedsSettle /\ task.confirmed /\ task'.state = task.state
        /\ task'.claim = task.turn.n + 1 /\ Number(task', task)
        /\ Work(task', task) /\ Outcome(task', task) /\ task'.ask = task.ask
        /\ task'.loaded = task.loaded /\ task'.recheck = task.recheck
        /\ codex' = codex /\ lock' = lock /\ holder' = holder
  BY <1>7 DEF ClaimSettle, outside
<1>9. ClaimExpires =>
        /\ task'.claim = 0 /\ Number(task', task) /\ task'.state = task.state
        /\ Work(task', task) /\ Outcome(task', task) /\ task'.ask = task.ask
        /\ task'.loaded = task.loaded /\ task'.recheck = task.recheck
        /\ codex' = codex /\ lock' = lock /\ holder' = holder
  BY <1>7 DEF ClaimExpires, outside
<1>10. PolicyDue => /\ task.ask /\ task.turn.reason = "running"
                   /\ task'.state = task.state /\ task'.turn.n = task.turn.n
                   /\ task'.turn.reason = task.turn.reason
                   /\ Work(task', task) /\ Rest(task', task) /\ Outcome(task', task)
                   /\ task'.ask = task.ask /\ task'.stopRequested = task.stopRequested
                   /\ codex' = codex /\ lock' = lock /\ holder' = holder
  <2> DEFINE t == [task.turn EXCEPT !.due = TRUE]
             q == [task EXCEPT !.turn = t]
  <2>1. t.n = task.turn.n /\ t.reason = task.turn.reason
    BY <1>0 DEF TaskType, TurnType
  <2>2. PolicyDue => task' = q
    BY <1>0 DEF PolicyDue, TaskType
  <2> HIDE DEF t
  <2>3. q.turn = t /\ q.state = task.state /\ Work(q, task) /\ Rest(q, task) /\ Outcome(q, task)
        /\ q.ask = task.ask /\ q.stopRequested = task.stopRequested
    BY <1>0 DEF TaskType, Work, Rest, Outcome
  <2> HIDE DEF q
  <2> QED
    BY <2>1, <2>2, <2>3 DEF PolicyDue, outside, Work, Rest, Outcome
<1>11. Sample => task' = task /\ codex' = codex /\ lock' = lock /\ holder' = holder
  BY DEF Sample
<1> QED
  BY <1>3, <1>4, <1>5, <1>6, <1>8, <1>9, <1>10, <1>11

\* A turn begins, in a record r of the task: Opened, Turn, Resumed and FollowOn.
LEMMA BeginsIs ==
  ASSUME TaskAssumption, Typed, NEW r \in TaskType, task' = BeginTurn(r),
         r.turn.n = task.turn.n, r.sends = task.sends, r.ending = task.ending,
         r.recheck = task.recheck, r.ask = task.ask, r.claim = task.claim
  PROVE  /\ task'.state = "starting" /\ task'.turn.n = task.turn.n + 1
         /\ task'.turn.reason = "running"
         /\ \E a \in {"none", "gone"} :
              /\ task'.sends = task.sends \cup {[n |-> task.turn.n + 1, answer |-> a]}
              /\ codex.up => a = "none"
         /\ task'.ending = task.ending /\ task'.concluding = r.concluding
         /\ task'.claim = task.claim /\ task'.ask = task.ask /\ task'.recheck = task.recheck
         /\ task'.loaded = r.loaded /\ ~ task'.stopRequested
<1>1. /\ task'.state = "starting" /\ task'.turn = Started(r.turn.n + 1)
      /\ task'.sends = r.sends \cup {[n |-> r.turn.n + 1, answer |-> IF codex.up THEN "none" ELSE "gone"]}
      /\ task'.ending = r.ending /\ task'.concluding = r.concluding /\ task'.claim = r.claim
      /\ task'.ask = r.ask /\ task'.loaded = r.loaded /\ task'.recheck = r.recheck
      /\ ~ task'.stopRequested
  BY BeginTurnIs
<1>2. task'.turn.n = r.turn.n + 1 /\ task'.turn.reason = "running"
  BY <1>1 DEF Started
<1> DEFINE a == IF codex.up THEN "none" ELSE "gone"
<1>3. a \in {"none", "gone"} /\ (codex.up => a = "none")
  OBVIOUS
<1>4. task'.sends = task.sends \cup {[n |-> task.turn.n + 1, answer |-> a]}
  BY <1>1
<1> HIDE DEF a
<1> QED
  BY <1>1, <1>2, <1>3, <1>4

LEMMA AsksCodexIs ==
  ASSUME Typed, AsksCodex
  PROVE  /\ codex'.up = codex.up /\ codex'.told = codex.told /\ codex'.turn = codex.turn
         /\ codex'.asking = codex.asking /\ codex'.inbox = codex.inbox
         /\ codex'.starts = IF codex.up THEN codex.starts \cup {task.turn.n + 1}
                            ELSE codex.starts
BY DEF Typed, AsksCodex, CodexType

\* The first turn, a further one, and one whose thread was resumed first.
BeginsNew ==
  /\ task'.state = "starting" /\ task'.turn.n = task.turn.n + 1 /\ task.turn.n < MaxTurns
  /\ task'.turn.reason = "running"
  /\ \E a \in {"none", "gone"} :
       /\ task'.sends = task.sends \cup {[n |-> task.turn.n + 1, answer |-> a]}
       /\ codex.up => a = "none"
  /\ task'.ending = task.ending /\ task'.claim = task.claim /\ task'.ask = task.ask
  /\ task'.recheck = task.recheck /\ ~ task'.stopRequested
  /\ codex'.up = codex.up /\ codex'.told = codex.told /\ codex'.turn = codex.turn
  /\ codex'.asking = codex.asking
  /\ codex'.starts = IF codex.up THEN codex.starts \cup {task.turn.n + 1} ELSE codex.starts
  /\ concluded' = concluded /\ faults' = faults /\ procs' = procs

LEMMA NewTurnIs ==
  ASSUME TaskAssumption, Typed, Begun
  PROVE  /\ Opened => /\ BeginsNew /\ task.state = "opening" /\ codex.up /\ task'.loaded
                      /\ task'.concluding = task.concluding /\ codex'.inbox = codex.inbox
                      /\ holder' = holder /\ lock' = lock
         /\ Turn => /\ Free /\ task.state = "idle" /\ codex.up /\ lock' = "mine"
                    /\ task.turn.n < MaxTurns
                    /\ \/ /\ BeginsNew /\ task.loaded /\ task'.loaded /\ holder' = holder
                          /\ task'.concluding = task.concluding /\ codex'.inbox = codex.inbox
                       \/ /\ task' = task /\ codex' = codex /\ ~ task.loaded /\ holder' = "turn"
                          /\ concluded' = concluded /\ faults' = faults /\ procs' = procs
         /\ Resumed => /\ BeginsNew /\ holder = "turn" /\ codex.up /\ task'.loaded
                       /\ task'.concluding = task.concluding /\ codex'.inbox = <<>>
                       /\ holder' = "nobody" /\ lock' = lock
<1> DEFINE r == [task EXCEPT !.loaded = TRUE]
<1>0. task \in TaskType /\ codex \in CodexType
  BY DEF Typed
<1>1. /\ r \in TaskType /\ r.turn.n = task.turn.n /\ r.sends = task.sends /\ r.ending = task.ending
      /\ r.recheck = task.recheck /\ r.ask = task.ask /\ r.claim = task.claim
      /\ r.loaded /\ r.concluding = task.concluding
  BY <1>0 DEF TaskType
<1>2. ASSUME Opened
      PROVE  /\ BeginsNew /\ task.state = "opening" /\ codex.up /\ task'.loaded
             /\ task'.concluding = task.concluding /\ codex'.inbox = codex.inbox
             /\ holder' = holder /\ lock' = lock
  <2>1. task' = BeginTurn(r) /\ AsksCodex /\ task.state = "opening" /\ codex.up
    BY <1>2 DEF Opened
  <2>2. task.turn.n < MaxTurns
    BY <2>1, TaskAssumption DEF Begun, TaskAssumption
  <2> HIDE DEF r
  <2> QED
    BY <1>0, <1>1, <1>2, <2>1, <2>2, BeginsIs, AsksCodexIs DEF BeginsNew, Opened
<1>3. ASSUME Turn, task.loaded
      PROVE  /\ Free /\ task.state = "idle" /\ codex.up /\ lock' = "mine"
             /\ BeginsNew /\ task'.loaded /\ holder' = holder
             /\ task'.concluding = task.concluding /\ codex'.inbox = codex.inbox
  <2>1. /\ task' = BeginTurn(task) /\ AsksCodex /\ task.state = "idle" /\ codex.up /\ Free
        /\ task.turn.n < MaxTurns /\ lock' = "mine"
    BY <1>3 DEF Turn, LockTaken
  <2> QED
    BY <1>0, <1>3, <2>1, BeginsIs, AsksCodexIs DEF BeginsNew, Turn
<1>4. ASSUME Turn, ~ task.loaded
      PROVE  /\ Free /\ task.state = "idle" /\ codex.up /\ lock' = "mine"
             /\ task.turn.n < MaxTurns
             /\ task' = task /\ codex' = codex /\ holder' = "turn"
             /\ concluded' = concluded /\ faults' = faults /\ procs' = procs
  BY <1>4 DEF Turn, LockTaken
<1>5. ASSUME Resumed
      PROVE  /\ BeginsNew /\ holder = "turn" /\ codex.up /\ task'.loaded
             /\ task'.concluding = task.concluding /\ codex'.inbox = <<>>
             /\ holder' = "nobody" /\ lock' = lock
  <2>1. task' = BeginTurn(r) /\ holder = "turn" /\ codex.up
    BY <1>5 DEF Resumed
  <2>2. task.turn.n < MaxTurns
    BY <2>1 DEF Begun
  <2>3. /\ codex'.up = codex.up /\ codex'.told = codex.told /\ codex'.turn = codex.turn
        /\ codex'.asking = codex.asking /\ codex'.inbox = <<>>
        /\ codex'.starts = codex.starts \cup {task.turn.n + 1}
    BY <1>0, <1>5 DEF Resumed, CodexType
  <2> HIDE DEF r
  <2> QED
    BY <1>0, <1>1, <1>5, <2>1, <2>2, <2>3, BeginsIs DEF BeginsNew, Resumed
<1>6. BeginsNew => task.turn.n < MaxTurns
  BY DEF BeginsNew
<1> QED
  BY <1>2, <1>3, <1>4, <1>5, <1>6

\* A reason ends the turn, unless one did already; and a Stop does.
EndsAs(why) ==
  /\ task'.turn.n = task.turn.n /\ task'.turn.due = task.turn.due
  /\ task'.concluding = task.concluding
  /\ task'.claim = task.claim /\ task'.recheck = task.recheck
  /\ Outcome(task', task)
  /\ task.turn.reason # "running" =>
       /\ task'.state = task.state /\ task'.turn.reason = task.turn.reason
       /\ task'.ending = task.ending /\ task'.ask = task.ask
  /\ task.turn.reason = "running" =>
       /\ task'.turn.reason = why /\ task'.ending = task.ending \cup {task.turn.n}
       /\ ~ task'.ask
       /\ task'.state = IF task.ask /\ task.state = "waiting_on_you" THEN "running"
                        ELSE task.state

Answering ==
  /\ codex'.up = codex.up /\ codex'.turn = codex.turn
  /\ codex'.starts = codex.starts /\ codex'.inbox = codex.inbox
  /\ codex'.asking => codex.asking /\ (task.ask => task'.ask)

LEMMA EndsAsIs ==
  ASSUME Typed
  PROVE  /\ StepCap => /\ EndsAs("step_cap") /\ Answering /\ task'.sends = task.sends
                       /\ task'.loaded = task.loaded /\ codex'.told = codex.told
                       /\ holder' = holder /\ lock' = lock
                       /\ codex.turn # 0 /\ task.state \notin OVER /\ task.turn.reason = "running"
         /\ \A why \in {"policy_timeout", "update"} : PolicyFires(why) =>
                       /\ EndsAs(why) /\ Answering /\ task'.sends = task.sends
                       /\ task'.loaded = task.loaded /\ codex'.told = codex.told
                       /\ holder' = holder /\ lock' = lock
                       /\ task.ask \/ task.turn.due \/ task.state = "waiting_on_you"
                       /\ task.turn.reason = "running"
         /\ \A s : SendTimesOut(s) =>
                       /\ EndsAs("turn_start_timeout") /\ Answering
                       /\ task'.sends = task.sends \ {s}
                       /\ s \in task.sends /\ s.answer = "none"
                       /\ "late" \in faults \/ s.n = task.turn.n
                       /\ task'.loaded = task.loaded /\ codex'.told = codex.told
                       /\ holder' = holder /\ lock' = lock
         /\ TaskTold => /\ IF Under THEN EndsAs("crash")
                           ELSE /\ Number(task', task) /\ task'.state = task.state
                                /\ task'.ending = task.ending /\ task'.ask = task.ask
                                /\ task'.concluding = task.concluding
                                /\ Outcome(task', task)
                        /\ task'.claim = task.claim /\ task'.recheck = task.recheck
                        /\ task'.sends = task.sends
                        /\ Answering /\ ~ codex.told /\ codex'.told /\ ~ task'.loaded
                        /\ holder' = holder /\ lock' = lock
<1>0. task \in TaskType /\ codex \in CodexType
  BY DEF Typed
<1>1. ASSUME NEW why, task' = EndTurnAs(task, why)
      PROVE  EndsAs(why) /\ task'.sends = task.sends /\ task'.loaded = task.loaded
  BY <1>0, <1>1, EndTurnAsIs DEF EndsAs, Same, Rest, Outcome
<1>2. codex' = Responds(codex) => Answering /\ codex'.told = codex.told
  BY <1>0, RespondsIs DEF Answering
<1>3. StepCap => /\ EndsAs("step_cap") /\ Answering /\ task'.sends = task.sends
                       /\ task'.loaded = task.loaded /\ codex'.told = codex.told
                       /\ holder' = holder /\ lock' = lock
                       /\ codex.turn # 0 /\ task.state \notin OVER /\ task.turn.reason = "running"
  BY <1>1, <1>2 DEF StepCap
<1>4. ASSUME NEW why \in {"policy_timeout", "update"}, PolicyFires(why)
      PROVE  /\ EndsAs(why) /\ Answering /\ task'.sends = task.sends
             /\ task'.loaded = task.loaded /\ codex'.told = codex.told
             /\ holder' = holder /\ lock' = lock
             /\ task.ask \/ task.turn.due \/ task.state = "waiting_on_you"
             /\ task.turn.reason = "running"
  BY <1>1, <1>2, <1>4 DEF PolicyFires
<1>5. ASSUME NEW s, SendTimesOut(s)
      PROVE  /\ EndsAs("turn_start_timeout") /\ Answering
             /\ task'.sends = task.sends \ {s}
             /\ s \in task.sends /\ s.answer = "none"
             /\ "late" \in faults \/ s.n = task.turn.n
             /\ task'.loaded = task.loaded /\ codex'.told = codex.told
             /\ holder' = holder /\ lock' = lock
  <2> DEFINE r == [task EXCEPT !.sends = @ \ {s}]
  <2>1. /\ r \in TaskType /\ r.turn = task.turn /\ r.sends = task.sends \ {s}
        /\ r.ending = task.ending /\ r.concluding = task.concluding /\ Rest(r, task)
        /\ Outcome(r, task) /\ r.ask = task.ask /\ r.state = task.state
    BY <1>0 DEF TaskType, Rest, Outcome
  <2>2. task' = EndTurnAs(r, "turn_start_timeout")
    BY <1>5 DEF SendTimesOut
  <2> HIDE DEF r
  <2>3. EndsAs("turn_start_timeout") /\ task'.sends = r.sends /\ task'.loaded = r.loaded
    BY <2>1, <2>2, EndTurnAsIs DEF EndsAs, Same, Rest, Outcome
  <2> QED
    BY <1>2, <1>5, <2>1, <2>3 DEF SendTimesOut, Rest
<1>6. ASSUME TaskTold
      PROVE  /\ IF Under THEN EndsAs("crash")
                ELSE /\ Number(task', task) /\ task'.state = task.state
                     /\ task'.ending = task.ending /\ task'.ask = task.ask
                     /\ task'.concluding = task.concluding /\ Outcome(task', task)
             /\ task'.claim = task.claim /\ task'.recheck = task.recheck
             /\ task'.sends = task.sends
             /\ Answering /\ ~ codex.told /\ codex'.told /\ ~ task'.loaded
             /\ holder' = holder /\ lock' = lock
  <2> DEFINE r == [task EXCEPT !.loaded = FALSE]
             q == [task.turn EXCEPT !.began = TRUE, !.done = TRUE]
             e == [r EXCEPT !.turn = q]
             d == [codex EXCEPT !.told = TRUE]
  <2>1. /\ r \in TaskType /\ r.turn = task.turn /\ r.sends = task.sends
        /\ r.ending = task.ending /\ r.concluding = task.concluding /\ r.claim = task.claim
        /\ Outcome(r, task) /\ r.ask = task.ask /\ r.state = task.state
        /\ r.recheck = task.recheck /\ ~ r.loaded
    BY <1>0 DEF TaskType, Outcome
  <2>2. /\ q \in TurnType /\ q.n = task.turn.n /\ q.reason = task.turn.reason
        /\ q.due = task.turn.due
    BY <1>0 DEF TurnType, TaskType
  <2>3. task' = IF Under THEN EndTurnAs(e, "crash") ELSE r
    BY <1>0, <1>6 DEF TaskTold, TaskType, TurnType, Under
  <2> HIDE DEF r, q
  <2>4. /\ e \in TaskType /\ e.turn = q /\ e.sends = r.sends
        /\ e.ending = r.ending /\ e.concluding = r.concluding /\ e.claim = r.claim
        /\ Outcome(e, r) /\ e.ask = r.ask /\ e.state = r.state
        /\ e.recheck = r.recheck /\ e.loaded = r.loaded
    BY <2>1, <2>2 DEF TaskType, Outcome
  <2>5. d \in CodexType /\ d.up = codex.up /\ d.turn = codex.turn /\ d.starts = codex.starts
        /\ d.inbox = codex.inbox /\ d.asking = codex.asking /\ d.told
    BY <1>0 DEF CodexType
  <2>6. codex' = Responds(d)
    BY <1>6 DEF TaskTold
  <2> HIDE DEF e, d
  <2>7. Answering /\ codex'.told
    BY <2>5, <2>6, RespondsIs DEF Answering
  <2>8. CASE Under
    <3>1. task' = EndTurnAs(e, "crash")
      BY <2>3, <2>8
    <3>2. /\ EndsAs("crash") /\ task'.sends = e.sends /\ task'.loaded = e.loaded
          /\ task'.claim = e.claim /\ task'.recheck = e.recheck
      BY <2>1, <2>2, <2>4, <3>1, EndTurnAsIs DEF EndsAs, Same, Rest, Outcome
    <3> QED
      BY <1>6, <2>1, <2>4, <2>7, <2>8, <3>2 DEF TaskTold
  <2>9. CASE ~ Under
    BY <1>6, <2>1, <2>3, <2>7, <2>9 DEF TaskTold, Number, Outcome
  <2> QED
    BY <2>8, <2>9
<1> QED
  BY <1>3, <1>4, <1>5, <1>6

Stops ==
  /\ task'.turn.n = task.turn.n /\ task'.turn.due = task.turn.due /\ task'.concluding = task.concluding
  /\ task'.sends = task.sends /\ Rest(task', task) /\ Outcome(task', task)
  /\ ~ InTurn \/ task.turn.reason # "running" =>
       /\ task'.state = task.state /\ task'.turn.reason = task.turn.reason
       /\ task'.ending = task.ending /\ task'.ask = task.ask
  /\ InTurn /\ task.turn.reason = "running" =>
       /\ task'.turn.reason = "stop" /\ task'.ending = task.ending \cup {task.turn.n}
       /\ ~ task'.ask /\ task'.state = "stopping"

LEMMA StopsIs ==
  ASSUME Typed
  PROVE  /\ Stop => /\ Stops /\ Answering /\ codex'.told = codex.told /\ holder' = holder
                    /\ lock' = lock /\ Free
         /\ Cancel => /\ Stops /\ Answering /\ codex'.told = codex.told /\ Free /\ lock' = lock
                      /\ task.state \notin OVER \cup {"none", "opening"}
                      /\ holder' = IF task.state = "idle" THEN "end" ELSE holder
<1>0. task \in TaskType /\ codex \in CodexType
  BY DEF Typed
<1> DEFINE r == [task EXCEPT !.endAfterSettle = TRUE]
<1>1. /\ r \in TaskType /\ r.turn = task.turn /\ r.sends = task.sends
      /\ r.ending = task.ending /\ r.concluding = task.concluding /\ Rest(r, task)
      /\ Outcome(r, task) /\ r.ask = task.ask /\ r.state = task.state
  BY <1>0 DEF TaskType, Rest, Outcome
<1>2. Stop \/ Cancel => \E q \in {task, r} : task' = Stopped(q)
  BY DEF Stop, Cancel
<1> HIDE DEF r
<1>3. Stop \/ Cancel => Stops
  BY <1>0, <1>1, <1>2, StoppedIs DEF Stops, Same, Rest, Outcome, InTurn
<1>4. codex' = Responds(codex) => Answering /\ codex'.told = codex.told
  BY <1>0, RespondsIs DEF Answering
<1> QED
  BY <1>3, <1>4 DEF Stop, Cancel

LEMMA AnswerIs ==
  ASSUME Typed, Answer
  PROVE  /\ Number(task', task) /\ Work(task', task) /\ Rest(task', task) /\ Outcome(task', task)
         /\ ~ task'.ask /\ Answering /\ codex'.told = codex.told /\ holder' = holder /\ lock' = lock
         /\ task'.state = IF task.ask /\ task.state = "waiting_on_you" THEN "running"
                          ELSE task.state
<1>0. task \in TaskType /\ codex \in CodexType
  BY DEF Typed
<1>1. task' = Resolved(task) /\ codex' = Responds(codex) /\ holder' = holder /\ lock' = lock
  BY DEF Answer
<1>2. Answering /\ codex'.told = codex.told
  BY <1>0, <1>1, RespondsIs DEF Answering
<1> QED
  BY <1>0, <1>1, <1>2, ResolvedIs DEF Same, Number, Work, Rest, Outcome

Begins(n) ==
  /\ Number(task', task) /\ task'.ending = task.ending /\ task'.concluding = task.concluding
  /\ Rest(task', task) /\ task'.confirmed = task.confirmed /\ task'.leftover = task.leftover
  /\ task'.ask = task.ask
  /\ task'.state = task.state \/ (task.state = "starting" /\ task'.state = "running")

LEMMA SendIs ==
  ASSUME Typed, NEW s \in task.sends
  PROVE  /\ SendAnswered(s) => /\ Begins(s.n) /\ task'.sends = task.sends \ {s}
                               /\ codex' = codex /\ holder' = holder /\ lock' = lock
                               /\ s.answer = "taken"
         /\ SendFailed(s) =>
              /\ s.answer \in {"none", "gone"}
              /\ "late" \in faults \/ (s.n = task.turn.n /\ task.turn.reason = "running")
              /\ task'.sends = task.sends \ {s} /\ task'.turn.n = task.turn.n
              /\ task'.turn.reason = "completed" /\ task'.state = task.state
              /\ task'.ask = task.ask /\ task'.ending = task.ending
              /\ Rest(task', task) /\ Outcome(task', task)
              /\ task'.concluding =
                   task.concluding \cup {[by |-> "send", n |-> s.n, at |-> "cleanup"]}
              /\ codex'.up = codex.up /\ codex'.told = codex.told /\ codex'.turn = codex.turn
              /\ codex'.asking = codex.asking /\ codex'.inbox = codex.inbox
              /\ codex'.starts = codex.starts \ {s.n}
              /\ holder' = holder /\ lock' = lock
<1>0. task \in TaskType /\ codex \in CodexType /\ task.turn \in TurnType
  BY DEF Typed, TaskType
<1> DEFINE r == [task EXCEPT !.sends = @ \ {s}]
<1>1. /\ r \in TaskType /\ r.turn = task.turn /\ r.sends = task.sends \ {s}
      /\ r.ending = task.ending /\ r.concluding = task.concluding /\ Rest(r, task)
      /\ Outcome(r, task) /\ r.ask = task.ask /\ r.state = task.state
  BY <1>0 DEF TaskType, Rest, Outcome
<1>2. ASSUME SendAnswered(s)
      PROVE  /\ Begins(s.n) /\ task'.sends = task.sends \ {s}
             /\ codex' = codex /\ holder' = holder /\ lock' = lock /\ s.answer = "taken"
  <2>1. /\ task' = Began(r, s.n) /\ codex' = codex /\ holder' = holder /\ lock' = lock
        /\ s.answer = "taken"
    BY <1>2 DEF SendAnswered, outside
  <2> HIDE DEF r
  <2> QED
    BY <1>1, <2>1, BeganIs DEF Begins, Number, Rest, Outcome
<1>3. ASSUME SendFailed(s)
      PROVE   /\ s.answer \in {"none", "gone"}
              /\ "late" \in faults \/ (s.n = task.turn.n /\ task.turn.reason = "running")
              /\ task'.sends = task.sends \ {s} /\ task'.turn.n = task.turn.n
              /\ task'.turn.reason = "completed" /\ task'.state = task.state
              /\ task'.ask = task.ask /\ task'.ending = task.ending
              /\ Rest(task', task) /\ Outcome(task', task)
              /\ task'.concluding =
                   task.concluding \cup {[by |-> "send", n |-> s.n, at |-> "cleanup"]}
              /\ codex'.up = codex.up /\ codex'.told = codex.told /\ codex'.turn = codex.turn
              /\ codex'.asking = codex.asking /\ codex'.inbox = codex.inbox
              /\ codex'.starts = codex.starts \ {s.n}
              /\ holder' = holder /\ lock' = lock
  <2> DEFINE q == [task.turn EXCEPT !.reason = "completed", !.failed = TRUE]
             c == task.concluding \cup {[by |-> "send", n |-> s.n, at |-> "cleanup"]}
             d == task.sends \ {s}
  <2>1. q.n = task.turn.n /\ q.reason = "completed"
    BY <1>0 DEF TurnType
  <2>2. task' = [task EXCEPT !.sends = d, !.turn = q, !.concluding = c]
    BY <1>0, <1>3 DEF SendFailed, TaskType
  <2>3. codex' = [codex EXCEPT !.starts = @ \ {s.n}]
    BY <1>3 DEF SendFailed
  <2> HIDE DEF q
  <2>4. /\ task'.sends = d /\ task'.turn = q /\ task'.state = task.state
        /\ task'.ask = task.ask /\ task'.ending = task.ending
        /\ Rest(task', task) /\ Outcome(task', task) /\ task'.concluding = c
    BY <1>0, <2>2 DEF TaskType, Rest, Outcome
  <2>5. /\ codex'.up = codex.up /\ codex'.told = codex.told /\ codex'.turn = codex.turn
        /\ codex'.asking = codex.asking /\ codex'.inbox = codex.inbox
        /\ codex'.starts = codex.starts \ {s.n}
    BY <1>0, <2>3 DEF CodexType
  <2> QED
    BY <1>3, <2>1, <2>4, <2>5 DEF SendFailed
<1> QED
  BY <1>2, <1>3

LEMMA TakenIs ==
  ASSUME Typed
  PROVE  /\ Taken.up = codex.up /\ Taken.told = codex.told /\ Taken.turn = codex.turn
         /\ Taken.asking = codex.asking /\ Taken.starts = codex.starts
         /\ Taken.inbox = Tail(codex.inbox)
BY DEF Typed, Taken, CodexType

\* A message is taken from the inbox.
Takes ==
  /\ codex.inbox # <<>> /\ codex'.inbox = Tail(codex.inbox)
  /\ codex'.up = codex.up /\ codex'.told = codex.told /\ codex'.turn = codex.turn
  /\ codex'.starts = codex.starts /\ task.state \notin OVER
  /\ holder' = holder /\ lock' = lock /\ task'.sends = task.sends
  /\ task'.turn.n = task.turn.n /\ Rest(task', task) /\ task'.ending = task.ending
  /\ task'.turn.due => task.turn.due

LEMMA ConsumesIs ==
  ASSUME Typed
  PROVE  /\ TurnStarted => Takes /\ Begins(Message.n) /\ codex'.asking = codex.asking
                           /\ Message.kind = "started"
         /\ TurnCompleted =>
              /\ Takes /\ Outcome(task', task)
              /\ codex'.asking => codex.asking /\ (task.ask => task'.ask)
              /\ Message.kind = "completed" /\ Answered
              /\ \/ /\ task'.turn.reason = task.turn.reason /\ task'.state = task.state
                    /\ task'.concluding = task.concluding /\ task'.ask = task.ask
                    /\ task.turn.reason # "running" \/ task.active \notin {0, Message.n}
                 \/ /\ task.turn.reason = "running" /\ task'.turn.reason = "completed"
                    /\ ~ task'.ask /\ task.active \in {0, Message.n}
                    /\ task'.state = IF task.ask /\ task.state = "waiting_on_you" THEN "running"
                                     ELSE task.state
                    /\ task'.concluding = task.concluding \cup
                         {[by |-> "consumer", n |-> task.turn.n, at |-> "cleanup"]}
         /\ CodexRequest =>
              /\ Takes /\ Outcome(task', task) /\ Message.kind = "asks"
              /\ task'.turn.reason = task.turn.reason /\ task'.concluding = task.concluding
              /\ codex'.asking => codex.asking /\ Offered
              /\ ~ Offered => task'.ask = task.ask /\ task'.state = task.state
              /\ Offered => /\ task'.ask
                            /\ task'.state = IF task.state = "running" THEN "waiting_on_you"
                                             ELSE task.state
<1>0. task \in TaskType /\ codex \in CodexType /\ task.turn \in TurnType
  BY DEF Typed, TaskType
<1>1. ASSUME TurnStarted
      PROVE  Takes /\ Begins(Message.n) /\ codex'.asking = codex.asking
             /\ Message.kind = "started"
  <2>1. /\ task' = Began(task, Message.n) /\ codex' = Taken /\ Message.kind = "started"
        /\ codex.inbox # <<>> /\ task.state \notin OVER /\ holder' = holder /\ lock' = lock
    BY <1>1 DEF TurnStarted, Arrives, Message
  <2>2. Begins(Message.n) /\ task'.sends = task.sends
    BY <1>0, <2>1, BeganIs DEF Begins, Number, Rest
  <2> QED
    BY <2>1, <2>2, TakenIs DEF Takes, Begins, Number
<1>2. ASSUME TurnCompleted
      PROVE   /\ Takes /\ Outcome(task', task)
              /\ codex'.asking => codex.asking /\ (task.ask => task'.ask)
              /\ Message.kind = "completed" /\ Answered
              /\ \/ /\ task'.turn.reason = task.turn.reason /\ task'.state = task.state
                    /\ task'.concluding = task.concluding /\ task'.ask = task.ask
                    /\ task.turn.reason # "running" \/ task.active \notin {0, Message.n}
                 \/ /\ task.turn.reason = "running" /\ task'.turn.reason = "completed"
                    /\ ~ task'.ask /\ task.active \in {0, Message.n}
                    /\ task'.state = IF task.ask /\ task.state = "waiting_on_you" THEN "running"
                                     ELSE task.state
                    /\ task'.concluding = task.concluding \cup
                         {[by |-> "consumer", n |-> task.turn.n, at |-> "cleanup"]}
  <2> DEFINE q == [task.turn EXCEPT !.failed = Message.failed, !.done = TRUE]
             v == [q EXCEPT !.reason = "completed"]
             c == task.concluding \cup
                    {[by |-> "consumer", n |-> task.turn.n, at |-> "cleanup"]}
             e == IF task.ask /\ task.state = "waiting_on_you" THEN "running" ELSE task.state
  <2>1. q.n = task.turn.n /\ q.reason = task.turn.reason /\ q.due = task.turn.due
    BY <1>0 DEF TurnType
  <2>2. v.n = task.turn.n /\ v.reason = "completed" /\ v.due = task.turn.due
    BY <1>0 DEF TurnType
  <2>3. \/ task.active \notin {0, Message.n} /\ task' = task
        \/ task.turn.reason # "running" /\ task' = [task EXCEPT !.turn = q]
        \/ /\ task.active \in {0, Message.n} /\ task.turn.reason = "running"
           /\ task' = [task EXCEPT !.ask = FALSE, !.state = e, !.turn = v, !.concluding = c]
    BY <1>0, <1>2, ZenonT(50) DEF TurnCompleted, Resolved, TaskType, TurnType
  <2> HIDE DEF q, v
  <2>4. LET k == [task EXCEPT !.turn = q]
        IN  /\ k.turn = q /\ k.state = task.state /\ k.concluding = task.concluding
            /\ k.ask = task.ask /\ k.sends = task.sends /\ Rest(k, task) /\ Outcome(k, task)
            /\ k.ending = task.ending
    BY <1>0 DEF TaskType, Rest, Outcome
  <2>5. LET k == [task EXCEPT !.ask = FALSE, !.state = e, !.turn = v, !.concluding = c]
        IN  /\ k.turn = v /\ k.state = e /\ k.concluding = c
            /\ ~ k.ask /\ k.sends = task.sends /\ Rest(k, task) /\ Outcome(k, task)
            /\ k.ending = task.ending
    BY <1>0 DEF TaskType, Rest, Outcome
  <2>6. Rest(task, task) /\ Outcome(task, task)
    BY DEF Rest, Outcome
  <2>7. /\ task'.sends = task.sends /\ task'.turn.n = task.turn.n /\ Rest(task', task)
        /\ task'.ending = task.ending /\ Outcome(task', task) /\ task'.turn.due = task.turn.due
    BY <2>1, <2>2, <2>3, <2>4, <2>5, <2>6
  <2>8.       \/ /\ task'.turn.reason = task.turn.reason /\ task'.state = task.state
                 /\ task'.concluding = task.concluding /\ task'.ask = task.ask
                 /\ task.turn.reason # "running" \/ task.active \notin {0, Message.n}
              \/ /\ task.turn.reason = "running" /\ task'.turn.reason = "completed"
                 /\ ~ task'.ask /\ task.active \in {0, Message.n}
                 /\ task'.state = e /\ task'.concluding = c
    BY <2>1, <2>2, <2>3, <2>4, <2>5
  <2>9. /\ codex' = Responds(Taken) /\ Message.kind = "completed" /\ Answered
        /\ codex.inbox # <<>> /\ task.state \notin OVER /\ holder' = holder /\ lock' = lock
    BY <1>2 DEF TurnCompleted, Arrives, Message
  <2>10. /\ codex'.up = codex.up /\ codex'.told = codex.told /\ codex'.turn = codex.turn
         /\ codex'.starts = codex.starts /\ codex'.inbox = Tail(codex.inbox)
         /\ codex'.asking => codex.asking /\ (task.ask => task'.ask)
    BY <1>0, <2>9 DEF Responds, Taken, CodexType
  <2> QED
    BY <2>7, <2>8, <2>9, <2>10 DEF Takes
<1>3. ASSUME CodexRequest
      PROVE   /\ Takes /\ Outcome(task', task) /\ Message.kind = "asks"
              /\ task'.turn.reason = task.turn.reason /\ task'.concluding = task.concluding
              /\ codex'.asking => codex.asking /\ Offered
              /\ ~ Offered => task'.ask = task.ask /\ task'.state = task.state
              /\ Offered => /\ task'.ask
                            /\ task'.state = IF task.state = "running" THEN "waiting_on_you"
                                             ELSE task.state
  <2> DEFINE k == [task EXCEPT !.ask = TRUE,
                       !.state = IF @ = "running" THEN "waiting_on_you" ELSE @]
  <2>1. /\ task' = IF ~ Offered THEN task ELSE k
        /\ codex' = Declined(Taken) /\ Message.kind = "asks"
        /\ codex.inbox # <<>> /\ task.state \notin OVER /\ holder' = holder /\ lock' = lock
    BY <1>3 DEF CodexRequest, Arrives, Message
  <2>2. /\ k.ask /\ k.state = IF task.state = "running" THEN "waiting_on_you" ELSE task.state
        /\ k.sends = task.sends /\ Rest(k, task) /\ Outcome(k, task)
        /\ k.ending = task.ending /\ k.concluding = task.concluding /\ k.turn = task.turn
    BY <1>0 DEF TaskType, Rest, Outcome
  <2>3. Rest(task, task) /\ Outcome(task, task)
    BY DEF Rest, Outcome
  <2>4. /\ codex'.up = codex.up /\ codex'.told = codex.told /\ codex'.turn = codex.turn
        /\ codex'.starts = codex.starts /\ codex'.inbox = Tail(codex.inbox)
        /\ codex'.asking => codex.asking /\ Offered
    BY <1>0, <2>1 DEF Declined, Taken, CodexType
  <2> HIDE DEF k, Offered
  <2> QED
    BY <2>1, <2>2, <2>3, <2>4 DEF Takes
<1> QED
  BY <1>1, <1>2, <1>3

Concludes(c) ==
  /\ task'.turn = task.turn
  /\ task'.sends = task.sends /\ task'.ending = task.ending /\ Rest(task', task)
  /\ task'.ask = task.ask
  /\ \E found \in Cleanups({}) :
       /\ Cleaned(found) /\ task'.confirmed = found.gone /\ task'.leftover = found.named
       /\ \/ /\ ~ found.gone /\ task'.state = "leftover"
             /\ task'.after = FINAL_STATE[task.turn.reason]
             /\ task'.concluding = task.concluding \ {c}
          \/ /\ found.gone /\ task'.state = task.state /\ task.turn.reason = "completed"
             /\ task'.concluding = (task.concluding \ {c}) \cup {[c EXCEPT !.at = "follow"]}
          \/ /\ found.gone /\ task'.state = FINAL_STATE[task.turn.reason]
             /\ task'.concluding = task.concluding \ {c}

\* The end sequence, the conclusion, and the step from it to the queued text.
LEMMA EndingIs ==
  ASSUME TaskAssumption, Typed, NEW c \in task.concluding, NEW n \in Turns
  PROVE  /\ Interrupted(n) =>
              /\ task' = task /\ holder' = holder /\ lock' = lock /\ procs' = procs
              /\ n \in task.ending /\ codex.turn = task.active /\ task.active # 0
              /\ codex'.turn = 0 /\ ~ codex'.asking /\ codex'.up = codex.up
              /\ codex'.told = codex.told /\ codex'.starts = codex.starts
              /\ codex'.inbox = Append(codex.inbox, [kind |-> "completed", n |-> codex.turn,
                                                     failed |-> TRUE])
         /\ EndSequence(n) =>
              /\ Number(task', task) /\ task'.state = task.state /\ task'.ask = task.ask
              /\ Rest(task', task) /\ Outcome(task', task) /\ task'.sends = task.sends
              /\ n \in task.ending /\ task'.ending = task.ending \ {n}
              /\ task'.concluding =
                   task.concluding \cup {[by |-> "sequence", n |-> n, at |-> "cleanup"]}
              /\ "deaf" \in faults \/ codex.turn = 0
              /\ Answered /\ ("late" \in faults \/ codex.inbox = <<>>)
              /\ codex'.up = codex.up /\ codex'.told = codex.told /\ codex'.turn = codex.turn
              /\ codex'.asking = codex.asking /\ codex'.inbox = codex.inbox
              /\ codex'.starts = (IF "late" \in faults THEN codex.starts ELSE {})
              /\ holder' = holder /\ lock' = lock /\ procs' = procs
         /\ Conclude(c) => /\ Concludes(c) /\ c.at = "cleanup" /\ codex' = codex
                           /\ holder' = holder /\ lock' = lock
         /\ FollowOn(c) => /\ Free /\ c.at = "follow" /\ holder' = holder /\ procs' = procs
                           /\ task'.concluding = task.concluding \ {c}
                           /\ task'.loaded = task.loaded
                           /\ \/ BeginsNew /\ lock' = "mine" /\ codex'.inbox = codex.inbox
                              \/ /\ ~ MayTake /\ codex' = codex /\ Number(task', task)
                                 /\ task'.sends = task.sends /\ task'.ending = task.ending
                                 /\ Rest(task', task) /\ Outcome(task', task)
                                 /\ task'.ask = task.ask
                                 /\ task'.state = FINAL_STATE[task.turn.reason]
<1>0. task \in TaskType /\ codex \in CodexType /\ task.turn \in TurnType
  BY DEF Typed, TaskType
<1>1. Interrupted(n) =>
              /\ task' = task /\ holder' = holder /\ lock' = lock /\ procs' = procs
              /\ n \in task.ending /\ codex.turn = task.active /\ task.active # 0
              /\ codex'.turn = 0 /\ ~ codex'.asking /\ codex'.up = codex.up
              /\ codex'.told = codex.told /\ codex'.starts = codex.starts
              /\ codex'.inbox = Append(codex.inbox, [kind |-> "completed", n |-> codex.turn,
                                                     failed |-> TRUE])
  BY <1>0 DEF Interrupted, CodexType
<1>2. ASSUME EndSequence(n)
      PROVE   /\ Number(task', task) /\ task'.state = task.state /\ task'.ask = task.ask
              /\ Rest(task', task) /\ Outcome(task', task) /\ task'.sends = task.sends
              /\ n \in task.ending /\ task'.ending = task.ending \ {n}
              /\ task'.concluding =
                   task.concluding \cup {[by |-> "sequence", n |-> n, at |-> "cleanup"]}
              /\ "deaf" \in faults \/ codex.turn = 0
              /\ Answered /\ ("late" \in faults \/ codex.inbox = <<>>)
              /\ codex'.up = codex.up /\ codex'.told = codex.told /\ codex'.turn = codex.turn
              /\ codex'.asking = codex.asking /\ codex'.inbox = codex.inbox
              /\ codex'.starts = (IF "late" \in faults THEN codex.starts ELSE {})
              /\ holder' = holder /\ lock' = lock /\ procs' = procs
  <2> DEFINE d == task.ending \ {n}
             e == task.concluding \cup {[by |-> "sequence", n |-> n, at |-> "cleanup"]}
  <2>1. task' = [task EXCEPT !.ending = d, !.concluding = e]
    BY <1>0, <1>2 DEF EndSequence, TaskType
  <2>2. /\ Number(task', task) /\ task'.state = task.state /\ task'.ask = task.ask
        /\ Rest(task', task) /\ Outcome(task', task) /\ task'.sends = task.sends
        /\ task'.ending = d /\ task'.concluding = e
    BY <1>0, <2>1 DEF TaskType, Rest, Outcome, Number
  <2>3. /\ codex'.up = codex.up /\ codex'.told = codex.told /\ codex'.turn = codex.turn
        /\ codex'.asking = codex.asking /\ codex'.inbox = codex.inbox
        /\ codex'.starts = (IF "late" \in faults THEN codex.starts ELSE {})
    BY <1>0, <1>2 DEF EndSequence, CodexType
  <2> QED
    BY <1>2, <2>2, <2>3 DEF EndSequence
<1>3. ASSUME Conclude(c)
      PROVE  /\ Concludes(c) /\ c.at = "cleanup" /\ codex' = codex
             /\ holder' = holder /\ lock' = lock
  <2>1. PICK found \in Cleanups({}) :
          LET r == [Confirm(task, found) EXCEPT !.active = 0, !.concluding = @ \ {c}]
              target == FINAL_STATE[r.turn.reason]
          IN /\ Cleaned(found)
             /\ task' = IF ~found.gone
                    THEN [r EXCEPT !.after = target, !.queued = FALSE, !.state = "leftover"]
                    ELSE IF r.queued /\ r.turn.reason = "completed" /\ ~r.turn.failed
                    THEN [r EXCEPT !.concluding = @ \cup {[c EXCEPT !.at = "follow"]}]
                    ELSE [r EXCEPT !.queued = FALSE, !.state = target]
    BY <1>3 DEF Conclude
  <2> DEFINE k == Confirm(task, found)
             r == [k EXCEPT !.active = 0, !.concluding = @ \ {c}]
             u == (task.concluding \ {c}) \cup {[c EXCEPT !.at = "follow"]}
             target == FINAL_STATE[r.turn.reason]
  <2>2. /\ k \in TaskType /\ k.state = task.state /\ k.turn = task.turn /\ k.sends = task.sends
        /\ k.ending = task.ending /\ k.concluding = task.concluding /\ Rest(k, task)
        /\ k.ask = task.ask /\ k.confirmed = found.gone /\ k.leftover = found.named
    BY <1>0, ConfirmIs, ConfirmTyped DEF Typed, Rest
  <2> HIDE DEF k
  <2>3. /\ r.state = task.state /\ r.turn = task.turn /\ r.sends = task.sends
        /\ r.ending = task.ending /\ r.concluding = task.concluding \ {c} /\ Rest(r, task)
        /\ r.ask = task.ask /\ r.confirmed = found.gone /\ r.leftover = found.named
        /\ target = FINAL_STATE[task.turn.reason]
    BY <2>2 DEF TaskType, Rest
  <2>4. DOMAIN r = DOMAIN task
    BY <1>0, <2>2 DEF TaskType
  <2>5. \/ ~ found.gone /\ task' = [r EXCEPT !.after = target, !.queued = FALSE, !.state = "leftover"]
        \/ /\ found.gone /\ task.turn.reason = "completed"
           /\ task' = [r EXCEPT !.concluding = u]
        \/ found.gone /\ task' = [r EXCEPT !.queued = FALSE, !.state = target]
    BY <2>1, <2>3 DEF k
  <2> HIDE DEF r, target, u
  <2>6. LET z == [r EXCEPT !.after = target, !.queued = FALSE, !.state = "leftover"]
        IN  /\ z.turn = r.turn /\ z.sends = r.sends /\ z.ending = r.ending /\ Rest(z, r)
            /\ z.ask = r.ask /\ z.confirmed = r.confirmed /\ z.leftover = r.leftover
            /\ z.concluding = r.concluding /\ z.state = "leftover" /\ z.after = target
    BY <1>0, <2>4 DEF TaskType, Rest
  <2>7. LET z == [r EXCEPT !.concluding = u]
        IN  /\ z.turn = r.turn /\ z.sends = r.sends /\ z.ending = r.ending /\ Rest(z, r)
            /\ z.ask = r.ask /\ z.confirmed = r.confirmed /\ z.leftover = r.leftover
            /\ z.concluding = u /\ z.state = r.state
    BY <1>0, <2>4 DEF TaskType, Rest
  <2>8. LET z == [r EXCEPT !.queued = FALSE, !.state = target]
        IN  /\ z.turn = r.turn /\ z.sends = r.sends /\ z.ending = r.ending /\ Rest(z, r)
            /\ z.ask = r.ask /\ z.confirmed = r.confirmed /\ z.leftover = r.leftover
            /\ z.concluding = r.concluding /\ z.state = target
    BY <1>0, <2>4 DEF TaskType, Rest
  <2>9. /\ task'.turn = r.turn /\ task'.sends = r.sends /\ task'.ending = r.ending
        /\ Rest(task', r) /\ task'.ask = r.ask /\ task'.confirmed = r.confirmed
        /\ task'.leftover = r.leftover
    BY <2>5, <2>6, <2>7, <2>8
  <2>10. \/ /\ ~ found.gone /\ task'.state = "leftover"
            /\ task'.after = target
            /\ task'.concluding = task.concluding \ {c}
         \/ /\ found.gone /\ task'.state = task.state /\ task.turn.reason = "completed"
            /\ task'.concluding = u
         \/ /\ found.gone /\ task'.state = target
            /\ task'.concluding = task.concluding \ {c}
    BY <2>3, <2>5, <2>6, <2>7, <2>8
  <2>11. Concludes(c)
    BY <2>1, <2>3, <2>9, <2>10, SMTT(30) DEF Concludes, Rest, u
  <2> QED
    BY <1>3, <2>11 DEF Conclude
<1>4. ASSUME FollowOn(c)
      PROVE   /\ Free /\ c.at = "follow" /\ holder' = holder /\ procs' = procs
              /\ task'.concluding = task.concluding \ {c}
              /\ task'.loaded = task.loaded
              /\ \/ BeginsNew /\ lock' = "mine" /\ codex'.inbox = codex.inbox
                 \/ /\ ~ MayTake /\ codex' = codex /\ Number(task', task)
                    /\ task'.sends = task.sends /\ task'.ending = task.ending
                    /\ Rest(task', task) /\ Outcome(task', task)
                    /\ task'.ask = task.ask
                    /\ task'.state = FINAL_STATE[task.turn.reason]
  <2> DEFINE r == [task EXCEPT !.concluding = @ \ {c}]
             target == FINAL_STATE[r.turn.reason]
  <2>1. \/ /\ LockTaken /\ task.turn.n < MaxTurns
           /\ task' = BeginTurn(r) /\ AsksCodex
        \/ /\ ~MayTake
           /\ task' = [r EXCEPT !.queued = FALSE, !.state = target]
           /\ UNCHANGED <<lock, codex>>
    BY <1>4 DEF FollowOn
  <2>2. /\ r \in TaskType /\ r.turn = task.turn /\ r.sends = task.sends
        /\ r.concluding = task.concluding \ {c} /\ r.ending = task.ending
        /\ r.ask = task.ask /\ Rest(r, task) /\ Outcome(r, task)
        /\ target = FINAL_STATE[task.turn.reason]
    BY <1>0 DEF TaskType, Rest, Outcome
  <2> HIDE DEF r, target
  <2>3. LET z == [r EXCEPT !.queued = FALSE, !.state = target]
        IN  /\ z.turn = r.turn /\ z.sends = r.sends /\ z.ending = r.ending /\ Rest(z, r)
            /\ z.ask = r.ask /\ Outcome(z, r) /\ z.concluding = r.concluding /\ z.state = target
    BY <2>2 DEF TaskType, Rest, Outcome
  <2>4. CASE task' = BeginTurn(r) /\ AsksCodex /\ LockTaken /\ task.turn.n < MaxTurns
    <3>1. /\ codex'.up = codex.up /\ codex'.told = codex.told /\ codex'.turn = codex.turn
         /\ codex'.asking = codex.asking /\ codex'.inbox = codex.inbox
         /\ codex'.starts = IF codex.up THEN codex.starts \cup {task.turn.n + 1}
                            ELSE codex.starts
      BY <2>4, AsksCodexIs
    <3> QED
      BY <1>4, <2>2, <2>4, <3>1, BeginsIs DEF BeginsNew, FollowOn, LockTaken, Rest
  <2>5. CASE ~ MayTake /\ task' = [r EXCEPT !.queued = FALSE, !.state = target]
             /\ UNCHANGED <<lock, codex>>
    BY <1>4, <2>2, <2>3, <2>5 DEF FollowOn, Rest, Outcome, Number
  <2> QED
    BY <2>1, <2>4, <2>5
<1> QED
  BY <1>1, <1>2, <1>3, <1>4

\* What a Stop left, settling, and the end of the task.
LEMMA SettlingIs ==
  ASSUME Typed
  PROVE  /\ StopLeftovers => /\ task' = task /\ codex' = codex /\ lock' = lock /\ procs' = procs
                             /\ task.state = "leftover" /\ Free /\ holder' = "stop_leftovers"
         /\ LeftoversStopped =>
              /\ holder = "stop_leftovers" /\ holder' = "nobody" /\ lock' = lock /\ codex' = codex
              /\ Number(task', task) /\ Work(task', task) /\ Rest(task', task)
              /\ task'.ask = task.ask /\ task'.after = task.after
              /\ \E found \in Cleanups(task.leftover) :
                   /\ Cleaned(found) /\ task'.confirmed = found.gone
                   /\ task'.leftover = found.named
                   /\ task'.state = IF found.gone THEN task.after ELSE task.state
         /\ RecheckBegins => /\ "overtaken" \in faults /\ task.state = "leftover"
                             /\ Number(task', task) /\ Work(task', task) /\ Outcome(task', task)
                             /\ task'.state = task.state /\ task'.claim = task.claim
                             /\ task'.loaded = task.loaded /\ task'.ask = task.ask
                             /\ codex' = codex /\ holder' = holder /\ lock' = lock
                             /\ procs' = procs
         /\ Recheck =>
              /\ Number(task', task) /\ Work(task', task) /\ task'.after = task.after
              /\ task'.recheck = {} /\ task'.loaded = task.loaded /\ task'.claim = task.claim
              /\ task'.ask = task.ask
              /\ codex' = codex /\ holder' = holder /\ lock' = lock /\ procs' = procs
              /\ task.recheck = {} => task.state = "leftover"
              /\ \/ task'.state = task.state /\ Outcome(task', task)
                 \/ /\ task'.state = task.after /\ task'.confirmed /\ task'.leftover = {}
                    /\ "overtaken" \notin faults => {} \in StillAlive(task.leftover)
         /\ Settles =>
              /\ Free /\ task.claim # 0 /\ NeedsSettle /\ task.confirmed
              /\ task'.claim = 0 /\ Number(task', task) /\ Work(task', task)
              /\ task'.confirmed = task.confirmed
              /\ task'.ask = task.ask /\ task'.loaded = task.loaded
              /\ task'.recheck = task.recheck /\ codex' = codex /\ procs' = procs
              /\ \/ task'.state = task.state /\ holder' = "end" /\ lock' = lock
                 \/ task'.state = "idle" /\ holder' = holder
         /\ Delete => /\ task' = task /\ codex' = codex /\ lock' = lock /\ procs' = procs
                      /\ Free /\ task.state = "idle" /\ holder' = "end"
         /\ Ended => /\ holder = "end" /\ holder' = "nobody" /\ codex' = codex /\ procs' = procs
                     /\ Number(task', task) /\ task'.state = "ended" /\ ~ task'.loaded
                     /\ task'.concluding = {c \in task.concluding : c.by # "consumer"}
                     /\ task'.sends = task.sends /\ task'.ending = task.ending
                     /\ task'.claim = task.claim /\ task'.recheck = task.recheck
                     /\ task'.ask = task.ask
<1>0. task \in TaskType /\ codex \in CodexType /\ task.turn \in TurnType
  BY DEF Typed, TaskType
<1>1. StopLeftovers => /\ task' = task /\ codex' = codex /\ lock' = lock /\ procs' = procs
                       /\ task.state = "leftover" /\ Free /\ holder' = "stop_leftovers"
  BY DEF StopLeftovers, outside
<1>2. ASSUME LeftoversStopped
      PROVE   /\ holder = "stop_leftovers" /\ holder' = "nobody" /\ lock' = lock /\ codex' = codex
              /\ Number(task', task) /\ Work(task', task) /\ Rest(task', task)
              /\ task'.ask = task.ask /\ task'.after = task.after
              /\ \E found \in Cleanups(task.leftover) :
                   /\ Cleaned(found) /\ task'.confirmed = found.gone
                   /\ task'.leftover = found.named
                   /\ task'.state = IF found.gone THEN task.after ELSE task.state
  <2>1. PICK found \in Cleanups(task.leftover) :
          /\ Cleaned(found)
          /\ task' = [Confirm(task, found) EXCEPT !.state = IF found.gone THEN task.after ELSE @]
    BY <1>2 DEF LeftoversStopped
  <2> DEFINE k == Confirm(task, found)
  <2>2. /\ k \in TaskType /\ k.state = task.state /\ Number(k, task) /\ Work(k, task)
        /\ Rest(k, task) /\ k.ask = task.ask /\ k.confirmed = found.gone
        /\ k.leftover = found.named /\ k.after = task.after
    <3>1. k \in TaskType
      BY <1>0, ConfirmTyped DEF Typed, TaskType
    <3> QED
      BY <1>0, <3>1, ConfirmIs, ZenonT(50) DEF Number, Work, Rest
  <2>3. task' = [k EXCEPT !.state = IF found.gone THEN task.after ELSE k.state]
    BY <2>1, <2>2 DEF TaskType
  <2> HIDE DEF k
  <2>4. Keeps(task', k) /\ task'.state = IF found.gone THEN task.after ELSE k.state
    BY <2>2, <2>3, StateIs
  <2> QED
    BY <1>2, <2>1, <2>2, <2>4 DEF LeftoversStopped, Keeps, Number, Work, Rest, Outcome
<1>3. ASSUME RecheckBegins
      PROVE                  /\ "overtaken" \in faults /\ task.state = "leftover"
                             /\ Number(task', task) /\ Work(task', task) /\ Outcome(task', task)
                             /\ task'.state = task.state /\ task'.claim = task.claim
                             /\ task'.loaded = task.loaded /\ task'.ask = task.ask
                             /\ codex' = codex /\ holder' = holder /\ lock' = lock
                             /\ procs' = procs
  BY <1>0, <1>3 DEF RecheckBegins, TaskType, Number, Work, Outcome, outside
<1>4. ASSUME Recheck
      PROVE   /\ Number(task', task) /\ Work(task', task) /\ task'.after = task.after
              /\ task'.recheck = {} /\ task'.loaded = task.loaded /\ task'.claim = task.claim
              /\ task'.ask = task.ask
              /\ codex' = codex /\ holder' = holder /\ lock' = lock /\ procs' = procs
              /\ task.recheck = {} => task.state = "leftover"
              /\ \/ task'.state = task.state /\ Outcome(task', task)
                 \/ /\ task'.state = task.after /\ task'.confirmed /\ task'.leftover = {}
                    /\ "overtaken" \notin faults => {} \in StillAlive(task.leftover)
  <2> DEFINE r == [task EXCEPT !.recheck = {}]
             q == [r EXCEPT !.confirmed = TRUE, !.leftover = {}, !.state = task.after]
  <2>1. PICK named \in IF "overtaken" \in faults THEN task.recheck
                     ELSE {task.leftover : x \in {"leftover"} \cap {task.state}} :
         \E alive \in StillAlive(named) : task' = IF alive # {} THEN r ELSE q
    BY <1>4 DEF Recheck
  <2>2. PICK alive \in StillAlive(named) : task' = IF alive # {} THEN r ELSE q
    BY <2>1
  <2>3. /\ r \in TaskType /\ Number(r, task) /\ Work(r, task) /\ Outcome(r, task)
        /\ r.recheck = {} /\ r.loaded = task.loaded /\ r.claim = task.claim
        /\ r.ask = task.ask /\ r.state = task.state
    BY <1>0 DEF TaskType, Number, Work, Outcome
  <2> HIDE DEF r
  <2>4. /\ Number(q, r) /\ Work(q, r) /\ q.after = r.after /\ q.recheck = r.recheck
        /\ q.loaded = r.loaded /\ q.claim = r.claim /\ q.ask = r.ask
        /\ q.state = task.after /\ q.confirmed /\ q.leftover = {}
    BY <2>3 DEF TaskType, Number, Work
  <2> HIDE DEF q
  <2>5. "overtaken" \notin faults => named = task.leftover /\ task.state = "leftover"
    BY <2>1
  <2>6. task.recheck = {} => task.state = "leftover"
    BY <2>1, <2>5
  <2>7. \/ task' = r
        \/ task' = q /\ ("overtaken" \notin faults => {} \in StillAlive(task.leftover))
    BY <2>2, <2>5
  <2>8. codex' = codex /\ holder' = holder /\ lock' = lock /\ procs' = procs
    BY <1>4 DEF Recheck, outside
  <2> QED
    BY <2>3, <2>4, <2>6, <2>7, <2>8 DEF Number, Work, Outcome
<1>5. ASSUME Settles
      PROVE   /\ Free /\ task.claim # 0 /\ NeedsSettle /\ task.confirmed
              /\ task'.claim = 0 /\ Number(task', task) /\ Work(task', task)
              /\ task'.confirmed = task.confirmed
              /\ task'.ask = task.ask /\ task'.loaded = task.loaded
              /\ task'.recheck = task.recheck /\ codex' = codex /\ procs' = procs
              /\ \/ task'.state = task.state /\ holder' = "end" /\ lock' = lock
                 \/ task'.state = "idle" /\ holder' = holder
  <2> DEFINE r == [task EXCEPT !.claim = 0, !.leftover = {}]
             q == [r EXCEPT !.state = "idle"]
  <2>1. PICK next \in {"idle", "end", "transfer"} : Settle(next)
    BY <1>5 DEF Settles
  <2>2. \/ task' = r /\ holder' = "end" /\ lock' = lock
        \/ task' = q /\ holder' = holder
    BY <2>1 DEF Settle, Settled
  <2>3. /\ Number(r, task) /\ Work(r, task) /\ r.claim = 0 /\ r.confirmed = task.confirmed
        /\ r.ask = task.ask /\ r.loaded = task.loaded /\ r.recheck = task.recheck
        /\ r.state = task.state
    BY <1>0 DEF TaskType, Number, Work
  <2>4. /\ Number(q, task) /\ Work(q, task) /\ q.claim = 0 /\ q.confirmed = task.confirmed
        /\ q.ask = task.ask /\ q.loaded = task.loaded /\ q.recheck = task.recheck
        /\ q.state = "idle"
    BY <1>0 DEF TaskType, Number, Work
  <2> HIDE DEF r, q
  <2> QED
    BY <2>1, <2>2, <2>3, <2>4 DEF Settle, outside
<1>6. Delete => /\ task' = task /\ codex' = codex /\ lock' = lock /\ procs' = procs
                /\ Free /\ task.state = "idle" /\ holder' = "end"
  BY DEF Delete, outside
<1>7. ASSUME Ended
      PROVE          /\ holder = "end" /\ holder' = "nobody" /\ codex' = codex /\ procs' = procs
                     /\ Number(task', task) /\ task'.state = "ended" /\ ~ task'.loaded
                     /\ task'.concluding = {c \in task.concluding : c.by # "consumer"}
                     /\ task'.sends = task.sends /\ task'.ending = task.ending
                     /\ task'.claim = task.claim /\ task'.recheck = task.recheck
                     /\ task'.ask = task.ask
  <2> DEFINE m == {c \in task.concluding : c.by # "consumer"}
  <2>1. task' = [task EXCEPT !.loaded = FALSE, !.state = "ended", !.concluding = m]
    BY <1>7 DEF Ended
  <2> HIDE DEF m
  <2>2. /\ Number(task', task) /\ task'.state = "ended" /\ ~ task'.loaded
        /\ task'.concluding = m
        /\ task'.sends = task.sends /\ task'.ending = task.ending
        /\ task'.claim = task.claim /\ task'.recheck = task.recheck
        /\ task'.ask = task.ask
    BY <1>0, <2>1 DEF TaskType, Number
  <2> QED
    BY <1>7, <2>2 DEF Ended, outside, m
<1> HIDE DEF StopLeftovers, LeftoversStopped, RecheckBegins, Recheck, Settles, Delete, Ended
<1> QED
  BY <1>1, <1>2, <1>3, <1>4, <1>5, <1>6, <1>7

\* Codex, its commands, the others and a restart.
LEMMA CodexIs ==
  ASSUME Typed, NEW n \in Turns, NEW failed \in BOOLEAN, NEW p \in Procs
  PROVE  /\ CodexTakes(n) =>
              /\ Number(task', task) /\ task'.state = task.state /\ Rest(task', task)
              /\ Outcome(task', task) /\ task'.ending = task.ending
              /\ task'.concluding = task.concluding /\ task'.ask = task.ask
              /\ task'.sends = {IF s.n = n THEN [s EXCEPT !.answer = "taken"] ELSE s
                                  : s \in task.sends}
              /\ codex.up /\ task.loaded /\ n \in codex.starts /\ codex.turn = 0
              /\ codex'.up = codex.up /\ codex'.told = codex.told /\ codex'.turn = n
              /\ codex'.asking = codex.asking /\ codex'.starts = codex.starts \ {n}
              /\ codex'.inbox = Append(codex.inbox, [kind |-> "started", n |-> n,
                                                     failed |-> FALSE])
              /\ holder' = holder /\ lock' = lock /\ procs' = procs
         /\ CodexAsks =>
              /\ task' = task /\ holder' = holder /\ lock' = lock /\ procs' = procs
              /\ codex.turn # 0
              /\ codex'.up = codex.up /\ codex'.told = codex.told /\ codex'.turn = codex.turn
              /\ codex'.asking /\ codex'.starts = codex.starts
              /\ codex'.inbox = Append(codex.inbox, [kind |-> "asks", n |-> codex.turn,
                                                     failed |-> FALSE])
         /\ CodexCompletes(failed) =>
              /\ task' = task /\ holder' = holder /\ lock' = lock /\ procs' = procs
              /\ codex.turn # 0 /\ ~ codex.asking
              /\ codex'.up = codex.up /\ codex'.told = codex.told /\ codex'.turn = 0
              /\ codex'.asking = codex.asking /\ codex'.starts = codex.starts
              /\ codex'.inbox = Append(codex.inbox, [kind |-> "completed", n |-> codex.turn,
                                                     failed |-> failed])
         /\ CommandStarts(p) \/ CommandEnds(p) \/ CommandStrays(p) =>
              /\ task' = task /\ codex' = codex /\ holder' = holder /\ lock' = lock
              /\ codex.turn # 0 \/ procs' \subseteq procs
         /\ CodexEnds =>
              /\ "ends" \in faults /\ Number(task', task) /\ task'.state = task.state
              /\ Rest(task', task)
              /\ Outcome(task', task) /\ task'.ending = task.ending
              /\ task'.concluding = task.concluding /\ task'.ask = task.ask
              /\ task'.sends = {IF s.answer = "none" THEN [s EXCEPT !.answer = "gone"] ELSE s
                                  : s \in task.sends}
              /\ ~ codex'.up /\ ~ codex'.told /\ codex'.turn = 0 /\ ~ codex'.asking
              /\ codex'.starts = {} /\ codex'.inbox = codex.inbox
              /\ holder' = holder /\ lock' = lock /\ procs' = procs
         /\ CodexStarts =>
              /\ task' = task /\ holder' = holder /\ lock' = lock /\ procs' = procs
              /\ ~ codex.up /\ codex.told /\ codex'.up /\ codex'.told = codex.told
              /\ codex'.turn = codex.turn
              /\ codex'.asking = codex.asking /\ codex'.starts = codex.starts
              /\ codex'.inbox = codex.inbox
         /\ OthersLock => /\ task' = task /\ codex' = codex /\ holder' = holder /\ procs' = procs
                          /\ lock = "mine" => task.state = "idle" /\ holder # "turn"
<1>0. task \in TaskType /\ codex \in CodexType /\ task.turn \in TurnType
  BY DEF Typed, TaskType
<1>1. \A x : LET k == [task EXCEPT !.sends = x]
             IN  /\ Number(k, task) /\ k.state = task.state /\ Rest(k, task)
                 /\ Outcome(k, task) /\ k.ending = task.ending
                 /\ k.concluding = task.concluding /\ k.ask = task.ask /\ k.sends = x
  BY <1>0 DEF TaskType, Number, Rest, Outcome
<1>2. ASSUME CodexTakes(n)
      PROVE   /\ Number(task', task) /\ task'.state = task.state /\ Rest(task', task)
              /\ Outcome(task', task) /\ task'.ending = task.ending
              /\ task'.concluding = task.concluding /\ task'.ask = task.ask
              /\ task'.sends = {IF s.n = n THEN [s EXCEPT !.answer = "taken"] ELSE s
                                  : s \in task.sends}
              /\ codex.up /\ task.loaded /\ n \in codex.starts /\ codex.turn = 0
              /\ codex'.up = codex.up /\ codex'.told = codex.told /\ codex'.turn = n
              /\ codex'.asking = codex.asking /\ codex'.starts = codex.starts \ {n}
              /\ codex'.inbox = Append(codex.inbox, [kind |-> "started", n |-> n,
                                                     failed |-> FALSE])
              /\ holder' = holder /\ lock' = lock /\ procs' = procs
  <2> DEFINE x == {IF s.n = n THEN [s EXCEPT !.answer = "taken"] ELSE s : s \in task.sends}
  <2>1. task' = [task EXCEPT !.sends = x]
    BY <1>0, <1>2 DEF CodexTakes, TaskType
  <2>2. /\ codex'.up = codex.up /\ codex'.told = codex.told /\ codex'.turn = n
        /\ codex'.asking = codex.asking /\ codex'.starts = codex.starts \ {n}
        /\ codex'.inbox = Append(codex.inbox, [kind |-> "started", n |-> n,
                                               failed |-> FALSE])
    BY <1>0, <1>2 DEF CodexTakes, CodexType
  <2> HIDE DEF x
  <2>3. /\ Number(task', task) /\ task'.state = task.state /\ Rest(task', task)
        /\ Outcome(task', task) /\ task'.ending = task.ending
        /\ task'.concluding = task.concluding /\ task'.ask = task.ask /\ task'.sends = x
    BY <1>1, <2>1
  <2> QED
    BY <1>2, <2>2, <2>3 DEF CodexTakes, x
<1>3. CodexAsks =>
              /\ task' = task /\ holder' = holder /\ lock' = lock /\ procs' = procs
              /\ codex.turn # 0
              /\ codex'.up = codex.up /\ codex'.told = codex.told /\ codex'.turn = codex.turn
              /\ codex'.asking /\ codex'.starts = codex.starts
              /\ codex'.inbox = Append(codex.inbox, [kind |-> "asks", n |-> codex.turn,
                                                     failed |-> FALSE])
  BY <1>0 DEF CodexAsks, CodexType
<1>4. CodexCompletes(failed) =>
              /\ task' = task /\ holder' = holder /\ lock' = lock /\ procs' = procs
              /\ codex.turn # 0 /\ ~ codex.asking
              /\ codex'.up = codex.up /\ codex'.told = codex.told /\ codex'.turn = 0
              /\ codex'.asking = codex.asking /\ codex'.starts = codex.starts
              /\ codex'.inbox = Append(codex.inbox, [kind |-> "completed", n |-> codex.turn,
                                                     failed |-> failed])
  BY <1>0 DEF CodexCompletes, CodexType
<1>5. CommandStarts(p) \/ CommandEnds(p) \/ CommandStrays(p) =>
              /\ task' = task /\ codex' = codex /\ holder' = holder /\ lock' = lock
              /\ codex.turn # 0 \/ procs' \subseteq procs
  BY DEF CommandStarts, CommandEnds, CommandStrays
<1>6. ASSUME CodexEnds
      PROVE   /\ "ends" \in faults /\ Number(task', task) /\ task'.state = task.state
              /\ Rest(task', task)
              /\ Outcome(task', task) /\ task'.ending = task.ending
              /\ task'.concluding = task.concluding /\ task'.ask = task.ask
              /\ task'.sends = {IF s.answer = "none" THEN [s EXCEPT !.answer = "gone"] ELSE s
                                  : s \in task.sends}
              /\ ~ codex'.up /\ ~ codex'.told /\ codex'.turn = 0 /\ ~ codex'.asking
              /\ codex'.starts = {} /\ codex'.inbox = codex.inbox
              /\ holder' = holder /\ lock' = lock /\ procs' = procs
  <2> DEFINE x == {IF s.answer = "none" THEN [s EXCEPT !.answer = "gone"] ELSE s
                     : s \in task.sends}
  <2>1. task' = [task EXCEPT !.sends = x]
    BY <1>0, <1>6 DEF CodexEnds, TaskType
  <2>2. /\ ~ codex'.up /\ ~ codex'.told /\ codex'.turn = 0 /\ ~ codex'.asking
        /\ codex'.starts = {} /\ codex'.inbox = codex.inbox
    BY <1>0, <1>6 DEF CodexEnds, CodexType
  <2> HIDE DEF x
  <2>3. /\ Number(task', task) /\ task'.state = task.state /\ Rest(task', task)
        /\ Outcome(task', task) /\ task'.ending = task.ending
        /\ task'.concluding = task.concluding /\ task'.ask = task.ask /\ task'.sends = x
    BY <1>1, <2>1
  <2> QED
    BY <1>6, <2>2, <2>3 DEF CodexEnds, x
<1>7. CodexStarts =>
              /\ task' = task /\ holder' = holder /\ lock' = lock /\ procs' = procs
              /\ ~ codex.up /\ codex.told /\ codex'.up /\ codex'.told = codex.told
              /\ codex'.turn = codex.turn
              /\ codex'.asking = codex.asking /\ codex'.starts = codex.starts
              /\ codex'.inbox = codex.inbox
  BY <1>0 DEF CodexStarts, CodexType
<1>8. OthersLock => /\ task' = task /\ codex' = codex /\ holder' = holder /\ procs' = procs
                    /\ lock = "mine" => task.state = "idle" /\ holder # "turn"
  BY DEF OthersLock, outside
<1> HIDE DEF CodexTakes, CodexAsks, CodexCompletes, CommandStarts, CommandEnds, CommandStrays,
             CodexEnds, CodexStarts, OthersLock
<1> QED
  BY <1>2, <1>3, <1>4, <1>5, <1>6, <1>7, <1>8

\* The state a restart reads, in which a turn that was under way is uncertain.
Read == IF Under \/ task.state = "opening" THEN "uncertain" ELSE task.state

Restarted ==
  /\ task.state \notin OVER \cup {"none"}
  /\ task'.turn.n = task.turn.n /\ task'.turn.reason = "running" /\ ~ task'.turn.due
  /\ task'.sends = {} /\ task'.ending = {} /\ task'.concluding = {} /\ task'.recheck = {}
  /\ task'.claim = 0 /\ ~ task'.ask /\ ~ task'.loaded
  /\ codex' = [up |-> TRUE, told |-> TRUE, turn |-> 0, asking |-> FALSE, starts |-> {},
               inbox |-> <<>>]
  /\ holder' = "nobody" /\ lock' = lock
  /\ astray' = procs'
  /\ \/ /\ Read = "idle" /\ task'.state = "idle" /\ task'.confirmed
        /\ procs' = procs /\ recorded' = recorded
     \/ /\ Read # "idle"
        /\ \E found \in RecordedCleanups(procs \cap recorded) :
             /\ procs' = (procs \ recorded) \cup found.left /\ recorded' = found.kept
             /\ task'.confirmed = found.gone
             /\ task'.leftover = found.named
             /\ found.gone => task'.state = Read
             /\ ~ found.gone => task'.state = "leftover" /\ task'.after = Left(Read)

LEMMA RestartIs ==
  ASSUME TaskAssumption, Typed, Restart PROVE Restarted
<1>0. task \in TaskType /\ task.turn \in TurnType
  BY DEF Typed, TaskType
<1> DEFINE state == IF InTurn \/ task.state \in {"opening", "stopping"} THEN "uncertain"
                    ELSE task.state
           q == Started(task.turn.n)
           r == [NewTask EXCEPT !.turn = q, !.state = state]
<1>1. state = Read
  BY DEF Read, Under
<1>2. \/ /\ state = "idle" /\ task' = [r EXCEPT !.confirmed = TRUE]
         /\ procs' = procs /\ recorded' = recorded
      \/ /\ state # "idle"
         /\ \E found \in RecordedCleanups(procs \cap recorded) :
              /\ procs' = (procs \ recorded) \cup found.left /\ recorded' = found.kept
              /\ task' = IF found.gone THEN Confirm(r, found)
                         ELSE [Confirm(r, found) EXCEPT !.state = "leftover", !.after = Left(state)]
  BY DEF Restart
<1>3. NewTask \in TaskType
  BY TaskAssumption DEF NewTask, TaskType, TurnType, Started, Reasons, States, SETTLE_STATES, TaskAssumption
<1>4. q.n = task.turn.n /\ q.reason = "running" /\ ~ q.due
  BY DEF Started
<1>5. /\ r.turn = q /\ r.state = state
      /\ r.sends = {} /\ r.ending = {} /\ r.concluding = {} /\ r.recheck = {}
      /\ r.claim = 0 /\ ~ r.ask /\ ~ r.loaded /\ DOMAIN r = DOMAIN NewTask
  BY DEF NewTask
<1> DEFINE Blank(z) == /\ z.turn = q /\ z.sends = {} /\ z.ending = {} /\ z.concluding = {}
                       /\ z.recheck = {} /\ z.claim = 0 /\ ~ z.ask /\ ~ z.loaded
<1> HIDE DEF state, q, r
<1>6. LET z == [r EXCEPT !.confirmed = TRUE] IN Blank(z) /\ z.state = state /\ z.confirmed
  BY <1>3, <1>5 DEF TaskType
<1>7. \A found : LET z == Confirm(r, found)
                 IN  /\ Blank(z) /\ z.state = state /\ z.confirmed = found.gone
                     /\ z.leftover = found.named /\ DOMAIN z = DOMAIN NewTask
  BY <1>3, <1>5 DEF TaskType, Confirm
<1>8. \A found : LET k == Confirm(r, found)
                     z == [k EXCEPT !.state = "leftover", !.after = Left(state)]
                 IN  /\ Blank(z) /\ z.state = "leftover" /\ z.after = Left(state)
                     /\ z.confirmed = found.gone /\ z.leftover = found.named
  <2> TAKE found
  <2> DEFINE k == Confirm(r, found)
  <2>1. /\ Blank(k) /\ k.confirmed = found.gone /\ k.leftover = found.named
        /\ DOMAIN k = DOMAIN NewTask
    BY <1>7
  <2> HIDE DEF k
  <2>2. LET z == [k EXCEPT !.state = "leftover", !.after = Left(state)]
        IN  /\ Blank(z) /\ z.state = "leftover" /\ z.after = Left(state)
            /\ z.confirmed = k.confirmed /\ z.leftover = k.leftover
    BY <1>3, <2>1 DEF TaskType
  <2> QED
    BY <2>1, <2>2 DEF k
<1>9. /\ task.state \notin OVER \cup {"none"} /\ holder' = "nobody" /\ lock' = lock
      /\ astray' = procs'
      /\ codex' = [up |-> TRUE, told |-> TRUE, turn |-> 0, asking |-> FALSE, starts |-> {},
                   inbox |-> <<>>]
  BY DEF Restart
<1>10. Blank(task')
  <2> HIDE DEF Blank
  <2>1. CASE task' = [r EXCEPT !.confirmed = TRUE]
    BY <1>6, <2>1
  <2>2. ASSUME NEW found, task' = IF found.gone THEN Confirm(r, found)
                   ELSE [Confirm(r, found) EXCEPT !.state = "leftover", !.after = Left(state)]
        PROVE  Blank(task')
    BY <1>7, <1>8, <2>2
  <2> QED
    BY <1>2, <2>1, <2>2
<1>11. \/ /\ Read = "idle" /\ task'.state = "idle" /\ task'.confirmed
          /\ procs' = procs /\ recorded' = recorded
       \/ /\ Read # "idle"
          /\ \E found \in RecordedCleanups(procs \cap recorded) :
               /\ procs' = (procs \ recorded) \cup found.left /\ recorded' = found.kept
               /\ task'.confirmed = found.gone
               /\ task'.leftover = found.named
               /\ found.gone => task'.state = Read
               /\ ~ found.gone => task'.state = "leftover" /\ task'.after = Left(Read)
  <2>1. CASE state = "idle"
    BY <1>1, <1>2, <1>6, <2>1
  <2>2. CASE state # "idle"
    <3>1. PICK found \in RecordedCleanups(procs \cap recorded) :
              /\ procs' = (procs \ recorded) \cup found.left /\ recorded' = found.kept
              /\ task' = IF found.gone THEN Confirm(r, found)
                         ELSE [Confirm(r, found) EXCEPT !.state = "leftover", !.after = Left(state)]
      BY <1>2, <2>2
    <3>2. /\ task'.confirmed = found.gone /\ task'.leftover = found.named
          /\ found.gone => task'.state = state
          /\ ~ found.gone => task'.state = "leftover" /\ task'.after = Left(state)
      BY <1>7, <1>8, <3>1
    <3> QED
      BY <1>1, <2>2, <3>1, <3>2
  <2> QED
    BY <2>1, <2>2
<1> QED
  BY <1>4, <1>9, <1>10, <1>11 DEF Restarted

\* The faults are the behaviour's; only a conclusion says that a turn is completed.
LEMMA OthersStand ==
  ASSUME Next
  PROVE  faults' = faults /\ (concluded' = concluded \/ Conclusions)
BY DEF Next, Create, Opened, OpeningFails, Turn, Resumed, ResumeFails, Sends, SendAnswered,
       SendFailed, SendTimesOut, Consumes, TurnStarted, TurnCompleted, CodexRequest, StepCap,
       Answer, SteerWithoutTurn, Steer, Steered, Stop, Cancel, Policies, PolicyFires, Interrupts,
       Interrupted, EndSequences, EndSequence, Conclusions, Conclude, FollowOns, FollowOn,
       StopLeftovers, LeftoversStopped, RecheckBegins, Recheck, ClaimSettle, ClaimExpires,
       Settles, Settle, Delete, Ended, CodexTakes, CodexAsks, CodexCompletes, CommandStarts,
       CommandEnds, CommandStrays, Sample, PolicyDue, CodexEnds, TaskTold, CodexStarts,
       OthersLock, Restart, outside

LEMMA FieldTypes ==
  ASSUME TaskAssumption, Typed
  PROVE  /\ task.turn.n \in Nat /\ MaxTurns \in Nat \ {0} /\ task.state \in States
         /\ task.turn.reason \in Reasons /\ FINAL_STATE[task.turn.reason] \in SETTLE_STATES
         /\ task.after \in SETTLE_STATES /\ SETTLE_STATES \subseteq States
         /\ task.sends \subseteq SendType /\ task.concluding \subseteq ConclusionType
         /\ task.ending \subseteq Turns /\ codex.starts \subseteq Turns
         /\ codex.inbox \in Seq(MessageType) /\ codex.turn \in Nat
         /\ codex.turn # 0 => codex.turn \in Turns
         /\ task.turn.n # 0 => task.turn.n \in Turns /\ task.turn.n <= MaxTurns
<1>1. /\ task \in TaskType /\ task.turn \in TurnType /\ codex \in CodexType
      /\ MaxTurns \in Nat \ {0}
  BY TaskAssumption DEF TaskAssumption, Typed, TaskType
<1>2. FINAL_STATE[task.turn.reason] \in SETTLE_STATES
  BY <1>1 DEF FINAL_STATE, TurnType, SETTLE_STATES
<1> QED
  BY <1>1, <1>2 DEF TaskType, TurnType, CodexType, States, Turns

\* A turn and what belongs to it begin together, and a route that may begin one is
\* counted on to have one left.
LEMMA BegunStep ==
  ASSUME TaskAssumption, Typed, Begun, Next PROVE Begun'
<1>0. /\ task.turn.n \in Nat /\ task.state \in States /\ task.after \in SETTLE_STATES
      /\ FINAL_STATE[task.turn.reason] \in SETTLE_STATES
  BY FieldTypes
<1> DEFINE Blank == /\ ~ Under /\ ~ task.ask /\ task.sends = {} /\ task.ending = {}
                    /\ task.concluding = {}
                    /\ codex.turn = 0 /\ codex.starts = {} /\ codex.inbox = <<>>
<1>z. Begun <=> /\ task.turn.n = 0 => Blank
                /\ task.state \in {"none", "opening"} => task.turn.n = 0 /\ holder = "nobody"
                /\ holder \in {"turn", "steer"} => task.turn.n < MaxTurns
  BY DEF Begun
<1>y. Begun' <=> /\ task'.turn.n = 0 => Blank'
                 /\ task'.state \in {"none", "opening"} => task'.turn.n = 0 /\ holder' = "nobody"
                 /\ holder' \in {"turn", "steer"} => task'.turn.n < MaxTurns
  BY DEF Begun
<1> USE DEF Under, InTurn, TURN_STATES, SETTLE_STATES, OVER
\* Turns begin.
<1>1. ASSUME BeginsNew, holder' \notin {"turn", "steer"} PROVE Begun'
  BY <1>0, <1>1, <1>y DEF BeginsNew
<1>2. CASE Opened \/ Turn \/ Resumed
  <2>1. CASE Opened
    BY <1>1, <1>z, <2>1, NewTurnIs
  <2>2. CASE Turn
    <3>1. CASE BeginsNew /\ holder' = holder /\ Free
      BY <1>1, <3>1 DEF Free
    <3>2. CASE task' = task /\ codex' = codex /\ holder' = "turn" /\ task.turn.n < MaxTurns
               /\ task.state = "idle"
      BY <1>z, <1>y, <3>2
    <3> QED
      BY <2>2, <3>1, <3>2, NewTurnIs
  <2>3. CASE Resumed
    BY <1>1, <2>3, NewTurnIs
  <2> QED
    BY <1>2, <2>1, <2>2, <2>3
<1>3. CASE FollowOns \/ Conclusions
  <2>1. PICK c \in task.concluding : FollowOn(c) \/ Conclude(c)
    BY <1>3 DEF FollowOns, Conclusions
  <2>2. task.turn.n # 0 /\ 1 \in Turns
    BY <1>z, <2>1, FieldTypes DEF Turns
  <2>3. CASE FollowOn(c)
    <3>1. CASE BeginsNew /\ Free /\ holder' = holder
      BY <1>1, <3>1 DEF Free
    <3>2. CASE task'.state = FINAL_STATE[task.turn.reason] /\ Number(task', task) /\ holder' = holder
      BY <1>0, <1>z, <1>y, <2>2, <3>2 DEF Number
    <3> QED
      BY <2>2, <2>3, <3>1, <3>2, EndingIs
  <2>4. CASE Conclude(c)
    <3>1. Concludes(c) /\ holder' = holder
      BY <2>2, <2>4, EndingIs
    <3>2. task'.state \in {"leftover", task.state, FINAL_STATE[task.turn.reason]}
      BY <3>1 DEF Concludes
    <3> QED
      BY <1>0, <1>z, <1>y, <2>2, <3>1, <3>2 DEF Concludes
  <2> QED
    BY <2>1, <2>3, <2>4
\* The others do what they do for a turn, or to a record without one.
<1>4. CASE Sends
  <2>1. PICK s \in task.sends : SendAnswered(s) \/ SendFailed(s) \/ SendTimesOut(s)
    BY <1>4 DEF Sends
  <2>2. task'.turn.n = task.turn.n /\ holder' = holder /\ task.turn.n # 0
    BY <1>z, <2>1, SendIs, EndsAsIs DEF EndsAs, Begins, Number
  <2>3. task'.state \in {"none", "opening"} => task.state = task'.state
    BY <2>1, SendIs, EndsAsIs DEF EndsAs, Begins
  <2> QED
    BY <1>z, <1>y, <2>2, <2>3
<1>5. CASE Consumes
  <2>1. Takes
    BY <1>5, ConsumesIs DEF Consumes
  <2>2. task'.turn.n = task.turn.n /\ holder' = holder /\ task.turn.n # 0
    BY <1>z, <2>1 DEF Takes
  <2>3. task'.state \in {"none", "opening"} => task.state = task'.state
    BY <1>5, ConsumesIs DEF Consumes, Begins
  <2> QED
    BY <1>z, <1>y, <2>2, <2>3
<1>6. CASE StepCap \/ Policies \/ Answer
  <2>1. PICK why \in {"policy_timeout", "update"} : StepCap \/ PolicyFires(why) \/ Answer
    BY <1>6 DEF Policies
  <2>2. task.turn.n # 0
    BY <1>z, <2>1, EndsAsIs DEF Answer, Typed, TaskType, TurnType
  <2>3. /\ task'.turn.n = task.turn.n /\ holder' = holder
        /\ task'.state \in {"none", "opening"} => task.state = task'.state
    BY <2>1, EndsAsIs, AnswerIs DEF EndsAs, Number
  <2> QED
    BY <1>z, <1>y, <2>2, <2>3
<1>7. CASE Stop \/ Cancel
  <2>1. Stops /\ Answering
    BY <1>7, StopsIs
  <2>2. /\ holder' = holder \/ (holder' = "end" /\ task.state = "idle")
        /\ task'.turn.n = task.turn.n
        /\ task'.state \in {"none", "opening"} => task.state = task'.state
    BY <1>7, <2>1, StopsIs DEF Stops
  <2>3. task.turn.n = 0 => Blank'
    BY <1>z, <2>1 DEF Stops, Answering
  <2> QED
    BY <1>z, <1>y, <2>2, <2>3
<1>8. CASE TaskTold
  <2>1. /\ Answering /\ holder' = holder /\ task'.sends = task.sends
    BY <1>8, EndsAsIs
  <2>2. CASE Under
    BY <1>8, <1>z, <1>y, <2>1, <2>2, EndsAsIs DEF EndsAs
  <2>3. CASE ~ Under
    BY <1>8, <1>z, <1>y, <2>1, <2>3, EndsAsIs DEF Answering, Number
  <2> QED
    BY <2>2, <2>3
<1>9. CASE Interrupts \/ EndSequences
  <2>1. PICK n \in Turns : Interrupted(n) \/ EndSequence(n)
    BY <1>9 DEF Interrupts, EndSequences
  <2>2. n \in task.ending
    BY <2>1 DEF Interrupted, EndSequence
  <2>4. Number(task', task) /\ task'.state = task.state /\ holder' = holder
    <3>1. CASE Interrupted(n)
      BY <3>1 DEF Interrupted, Number
    <3>2. CASE EndSequence(n)
      BY <3>2, FieldTypes DEF EndSequence, Number, Typed, TaskType
    <3> QED
      BY <2>1, <3>1, <3>2
  <2> QED
    BY <1>z, <1>y, <2>2, <2>4 DEF Number
<1>10. CASE \/ Create \/ OpeningFails \/ ResumeFails \/ SteerWithoutTurn \/ Steer \/ Steered
            \/ ClaimSettle \/ ClaimExpires \/ PolicyDue
  <2>1. /\ task'.turn.n = task.turn.n /\ codex' = codex
        /\ task'.sends = task.sends /\ task'.ending = task.ending
        /\ task'.concluding = task.concluding /\ task'.ask = task.ask
        /\ task'.state = task.state \/ Create \/ OpeningFails
        /\ holder' \in {holder, "nobody"} \/ SteerWithoutTurn \/ Steer \/ Steered
    BY <1>10, SimpleIs DEF Keeps, Number, Work
  <2>2. CASE Create \/ OpeningFails
    BY <1>z, <1>y, <2>1, <2>2, SimpleIs
  <2>3. CASE SteerWithoutTurn \/ Steer \/ Steered
    <3>1. /\ holder' \in {"nobody", "steer"} /\ (holder' = "steer" => task.turn.n < MaxTurns)
          /\ task'.state = task.state
      BY <2>3, SimpleIs
    <3>2. holder' = "steer" => InTurn \/ task.state \in SETTLE_STATES \cup {"idle", "leftover"}
                                \/ holder = "steer"
      BY <2>3 DEF SteerWithoutTurn, Steer, Steered, Free
    <3> QED
      BY <1>z, <1>y, <2>1, <3>1, <3>2
  <2>4. CASE task'.state = task.state /\ holder' \in {holder, "nobody"}
    BY <1>z, <1>y, <2>1, <2>4
  <2> QED
    BY <1>10, <2>1, <2>2, <2>3, <2>4
<1>11. CASE \/ StopLeftovers \/ LeftoversStopped \/ RecheckBegins \/ Recheck
            \/ Settles \/ Delete
  <2>1. /\ Number(task', task) /\ Work(task', task) /\ task'.ask = task.ask /\ codex' = codex
        /\ task'.state \in {task.state, task.after, "idle"}
        /\ holder' \in {holder, "nobody", "end", "stop_leftovers"}
        /\ holder' \notin {holder, "nobody"} => task.state \in SETTLE_STATES \cup {"idle", "leftover"}
                                               /\ task'.state \in {task.state, task.after, "idle"}
    BY <1>11, SettlingIs DEF Number, Work, NeedsSettle
  <2> QED
    BY <1>0, <1>z, <1>y, <2>1 DEF Number, Work
<1>12. CASE Ended
  <2>1. /\ Number(task', task) /\ task'.sends = task.sends /\ task'.ending = task.ending
        /\ codex' = codex /\ holder' = "nobody" /\ task'.ask = task.ask /\ task'.state = "ended"
        /\ task.concluding = {} => task'.concluding = {}
    BY <1>12, SettlingIs
  <2> QED
    BY <1>z, <1>y, <2>1 DEF Number
<1>13. CASE \E n \in Turns : CodexTakes(n)
  <2>1. PICK n \in Turns : CodexTakes(n)
    BY <1>13
  <2>2. /\ n \in codex.starts /\ task'.turn.n = task.turn.n /\ task'.state = task.state
        /\ holder' = holder
    BY <2>1 DEF CodexTakes, Typed, TaskType
  <2> QED
    BY <1>z, <1>y, <2>2
<1>14. CASE \/ CodexAsks \/ \E failed \in BOOLEAN : CodexCompletes(failed)
            \/ \E p \in Procs : CommandStarts(p) \/ CommandEnds(p) \/ CommandStrays(p)
            \/ Sample \/ CodexStarts \/ OthersLock
  <2>1. task' = task /\ holder' = holder /\ (codex.turn # 0 \/ (Blank => Blank'))
    <3>1. CASE CodexAsks \/ \E failed \in BOOLEAN : CodexCompletes(failed)
      BY <3>1 DEF CodexAsks, CodexCompletes
    <3>2. CASE \/ \E p \in Procs : CommandStarts(p) \/ CommandEnds(p) \/ CommandStrays(p)
               \/ Sample \/ CodexStarts \/ OthersLock
      BY <3>2 DEF Sample, CommandStarts, CommandEnds, CommandStrays, CodexStarts, OthersLock, Typed,
                  CodexType, outside
    <3> QED
      BY <1>14, <3>1, <3>2
  <2> QED
    BY <1>z, <1>y, <2>1
<1>15. CASE CodexEnds
  <2>1. /\ task'.turn.n = task.turn.n /\ task'.state = task.state /\ task'.ending = task.ending
        /\ task'.concluding = task.concluding /\ task'.ask = task.ask
        /\ task.sends = {} => task'.sends = {}
        /\ codex'.turn = 0 /\ codex'.starts = {} /\ codex'.inbox = codex.inbox
        /\ holder' = holder
    BY <1>15 DEF CodexEnds, Typed, TaskType, CodexType
  <2> QED
    BY <1>z, <1>y, <2>1
<1>16. CASE Restart
  <2>1. Restarted
    BY <1>16, RestartIs
  <2>2. task'.state \in SETTLE_STATES \cup {"idle", "leftover"}
    BY <1>0, <2>1 DEF Restarted, Read, States
  <2> QED
    BY <1>y, <2>1, <2>2 DEF Restarted
<1> QED
  BY <1>2, <1>3, <1>4, <1>5, <1>6, <1>7, <1>8, <1>9, <1>10, <1>11, <1>12, <1>13, <1>14, <1>15,
     <1>16 DEF Next

LEMMA TypedStep ==
  ASSUME TaskAssumption, Typed, Begun, [Next]_vars PROVE Typed' /\ Begun'
<1>1. CASE Next
  <2>1. Typed'
    BY <1>1, TaskTypedStep, CodexTypedStep, OthersTypedStep DEF Typed
  <2> QED
    BY <1>1, <2>1, BegunStep
<1>2. CASE UNCHANGED vars
  BY <1>2 DEF vars, Typed, Begun, Under, InTurn
<1> QED
  BY <1>1, <1>2

LEMMA TypedInit ==
  ASSUME TaskAssumption, Init PROVE Typed /\ Begun
<1>1. NewTask \in TaskType
  BY TaskAssumption DEF NewTask, TaskType, TurnType, Started, Reasons, States, SETTLE_STATES,
                        TaskAssumption
<1>2. /\ NewTask.turn.n = 0 /\ NewTask.state = "none" /\ ~ NewTask.ask /\ NewTask.sends = {}
      /\ NewTask.ending = {} /\ NewTask.concluding = {}
  BY DEF NewTask, Started
<1>3. 0 \in 0 .. MaxTurns /\ 0 <= MaxInbox /\ 0 < MaxTurns
  BY TaskAssumption DEF TaskAssumption
<1>4. codex \in CodexType /\ codex.inbox = <<>> /\ codex.turn = 0 /\ codex.starts = {}
      /\ Len(codex.inbox) = 0
  BY <1>3 DEF Init, CodexType
<1>5. Typed
  BY <1>1, <1>3, <1>4 DEF Init, Typed
<1> QED
  BY <1>2, <1>3, <1>4, <1>5 DEF Init, Begun, Under, InTurn, TURN_STATES

LEMMA TypesHold ==
  ASSUME TaskAssumption, Typed PROVE TypeOK
<1>1. /\ task.sends \subseteq SendType /\ task.turn \in TurnType /\ task \in TaskType
      /\ codex \in CodexType
  BY DEF Typed, TaskType
<1>2. \A s \in task.sends : s.n \in Turns /\ s.answer \in {"none", "taken", "gone"}
  BY <1>1 DEF SendType
<1> QED
  BY <1>1, <1>2 DEF TypeOK, Typed, TaskType, TurnType, CodexType

\* The types hold under every fault, for any number of turns, of failures and of messages.
THEOREM TypesOfTheTask == Spec => []TypeOK
<1>1. Init => Typed /\ Begun
  BY TaskAssumption, TypedInit
<1>2. Typed /\ Begun /\ [Next]_vars => (Typed /\ Begun)'
  BY TaskAssumption, TypedStep
<1>3. Typed => TypeOK
  BY TaskAssumption, TypesHold
<1> QED
  BY <1>1, <1>2, <1>3, PTL DEF Spec

-----------------------------------------------------------------------------
(* One end of a turn, and the lock that covers the work.                  *)

Quiet == "late" \notin faults /\ "overtaken" \notin faults

\* While a turn is under way either nothing has ended it, or its end sequence waits, or one
\* conclusion does; when none is, nothing of one is left that could end another.
OneEnd ==
  /\ Under =>
       \/ /\ task.turn.reason = "running" /\ task.state # "stopping"
          /\ task.ending = {} /\ task.concluding = {}
       \/ /\ task.turn.reason # "running"
          /\ \/ task.ending = {task.turn.n} /\ task.concluding = {}
             \/ task.ending = {} /\ \E c : task.concluding = {c}
  /\ ~ Under => task.ending = {} /\ task.concluding = {}
  /\ task.state = "stopping" => task.turn.reason = "stop"
  /\ \A c \in task.concluding : c.at = "follow" => task.turn.reason = "completed"
  /\ ~ Under /\ task.turn.reason = "running" =>
       /\ task.sends = {} /\ ~ task.ask /\ ~ task.turn.due
       /\ codex.starts = {} /\ codex.turn = 0 /\ codex.inbox = <<>>

\* The routes that await with the action lock held find the task as they left it.
Routes ==
  /\ task.recheck = {}
  /\ holder = "turn" => task.state = "idle" /\ lock = "mine"
  /\ holder = "end" => task.state \in SETTLE_STATES \cup {"idle"} /\ task.claim = 0
  /\ holder = "stop_leftovers" => task.state \in SETTLE_STATES \cup {"leftover"}
  /\ Working => lock = "mine"
  /\ task.claim # 0 => NeedsSettle /\ task.claim = task.turn.n + 1

\* A turn that is under way has not been said to be completed.
Counted ==
  /\ \A k \in Turns : concluded[k] <= 1 /\ (k > task.turn.n => concluded[k] = 0)
  /\ Under /\ (\A c \in task.concluding : c.at # "follow") => concluded[task.turn.n] = 0

Control == OneEnd /\ Routes /\ Counted

Stands ==
  /\ task.state \in OVER => task'.state = task.state
  /\ task.state = "stopping" => task'.state \in {"stopping", "stopped", "leftover", "uncertain"}

LEMMA ConcludeControlled ==
  ASSUME TaskAssumption, Typed, Begun, Control, Quiet, Conclusions
  PROVE  Control' /\ Stands
<1>0. /\ task.turn.n \in Nat /\ task.state \in States /\ task.after \in SETTLE_STATES
      /\ FINAL_STATE[task.turn.reason] \in SETTLE_STATES
      /\ task.concluding \subseteq ConclusionType
      /\ task.turn.n # 0 => task.turn.n \in Turns /\ task.turn.n <= MaxTurns
  BY FieldTypes
<1>1. PICK c \in task.concluding : Conclude(c)
  BY DEF Conclusions
<1>2. /\ Under /\ task.turn.n \in Turns /\ task.turn.reason # "running"
      /\ task.ending = {} /\ task.concluding = {c}
  BY <1>0, <1>1 DEF Control, OneEnd, Begun
<1>3. Concludes(c) /\ c.at = "cleanup" /\ codex' = codex /\ holder' = holder /\ lock' = lock
  BY <1>1, <1>2, EndingIs
<1> DEFINE u == [c EXCEPT !.at = "follow"]
<1>4. u.at = "follow"
  BY <1>0, <1>1 DEF ConclusionType
<1> HIDE DEF u
<1>5. /\ task'.turn.n = task.turn.n /\ task'.turn.reason = task.turn.reason
      /\ task'.sends = task.sends /\ task'.ending = task.ending /\ Rest(task', task)
      /\ task'.ask = task.ask
      /\ \/ task'.state = "leftover" /\ task'.concluding = {}
         \/ /\ task'.state = task.state /\ task.turn.reason = "completed"
            /\ task'.concluding = {u}
         \/ /\ task'.state = FINAL_STATE[task.turn.reason] /\ task'.concluding = {}
  BY <1>2, <1>3 DEF Concludes, u
<1>6. concluded[task.turn.n] = 0
  BY <1>2, <1>3 DEF Control, Counted
<1>7. concluded' = [concluded EXCEPT ![task.turn.n] = 1]
  BY <1>1, <1>2, <1>6 DEF Conclude
<1>8. Counted'
  <2>1. \A k \in Turns : concluded'[k] <= 1 /\ (k > task'.turn.n => concluded'[k] = 0)
    BY <1>0, <1>2, <1>5, <1>7 DEF Control, Counted, Typed, Turns
  <2>2. Under' => task'.concluding = {u}
    BY <1>0, <1>5 DEF Under, InTurn, TURN_STATES, SETTLE_STATES
  <2> QED
    BY <1>4, <2>1, <2>2 DEF Counted
<1>9. OneEnd'
  <2>1. Under' => task'.concluding = {u} /\ task.turn.reason = "completed" /\ task'.state = task.state
    BY <1>0, <1>5 DEF Under, InTurn, TURN_STATES, SETTLE_STATES
  <2>2. ~ Under' => task'.concluding = {}
    BY <1>0, <1>2, <1>5 DEF Under, InTurn
  <2>3. task.state # "stopping" \/ task.turn.reason = "stop"
    BY DEF Control, OneEnd
  <2>4. task'.state = "stopping" => task'.turn.reason = "stop"
    BY <1>0, <1>5, <2>3 DEF SETTLE_STATES
  <2>5. \A d \in task'.concluding : d.at = "follow" => task'.turn.reason = "completed"
    BY <1>0, <1>5
  <2> QED
    BY <1>2, <1>5, <2>1, <2>2, <2>4, <2>5 DEF OneEnd
<1>10. Routes'
  BY <1>0, <1>2, <1>3, <1>5
     DEF Control, Routes, Rest, Working, NeedsSettle, InTurn, Under, TURN_STATES, SETTLE_STATES
<1>11. Stands
  <2>1. task.state = "stopping" => FINAL_STATE[task.turn.reason] = "stopped"
    BY DEF Control, OneEnd, FINAL_STATE, Reasons
  <2>2. task.state = "stopping" => task.turn.reason # "completed"
    BY DEF Control, OneEnd
  <2> QED
    BY <1>2, <1>5, <2>1, <2>2 DEF Stands, OVER, Under, InTurn, TURN_STATES
<1> QED
  BY <1>8, <1>9, <1>10, <1>11 DEF Control

\* A step that says of no turn that it is completed, and leaves the turn's number.
LEMMA CountedStands ==
  ASSUME Counted, concluded' = concluded, task'.turn.n = task.turn.n,
         Under' /\ (\A c \in task'.concluding : c.at # "follow")
           => Under /\ (\A c \in task.concluding : c.at # "follow")
  PROVE  Counted'
BY DEF Counted

\* A step that leaves the task where it is, with its turn and the turn's ends.
LEMMA ControlStands ==
  ASSUME Control, concluded' = concluded, Number(task', task), task'.state = task.state,
         task'.ending = task.ending, task'.concluding = task.concluding,
         task'.recheck = task.recheck,
         task.sends = {} => task'.sends = {}, ~ task.ask => ~ task'.ask,
         codex.starts = {} => codex'.starts = {},
         codex.inbox = <<>> /\ codex.turn = 0 /\ codex.starts = {}
           => codex'.inbox = <<>> /\ codex'.turn = 0,
         holder' \in {holder, "nobody"}, lock = "mine" /\ Working => lock' = "mine",
         holder = "turn" /\ lock = "mine" => lock' = "mine",
         task'.claim \in {0, task.claim}
  PROVE  Control' /\ Stands
<1>1. Counted'
  BY CountedStands DEF Control, Number, Under, InTurn
<1>2. OneEnd'
  BY DEF Control, OneEnd, Number, Under, InTurn
<1>3. Routes'
  BY DEF Control, Routes, Number, Working, NeedsSettle, InTurn
<1> QED
  BY <1>1, <1>2, <1>3 DEF Control, Stands

\* A turn begins, in a task that has none under way any more.
LEMMA BeginsControlled ==
  ASSUME TaskAssumption, Typed, Control, concluded' = concluded, BeginsNew,
         task'.concluding = {}, ~ Under \/ task.ending = {}, task.claim = 0,
         holder' = "nobody", lock' = "mine", task.state \notin OVER, task.state # "stopping"
  PROVE  Control' /\ Stands
<1>0. /\ task.turn.n \in Nat /\ task'.turn.n = task.turn.n + 1 /\ task.turn.n + 1 \in Turns
      /\ task.turn.n + 1 > task.turn.n
  BY FieldTypes DEF BeginsNew, Turns
<1>1. Counted'
  <2>1. \A k \in Turns : concluded'[k] <= 1 /\ (k > task'.turn.n => concluded'[k] = 0)
    BY <1>0 DEF Control, Counted, Turns
  <2>2. concluded'[task'.turn.n] = 0
    BY <1>0 DEF Control, Counted
  <2> QED
    BY <2>1, <2>2 DEF Counted
<1>2. OneEnd'
  BY DEF Control, OneEnd, BeginsNew, Under, InTurn, TURN_STATES
<1>3. Routes'
  BY DEF Control, Routes, BeginsNew, Working, NeedsSettle, InTurn, TURN_STATES
<1> QED
  BY <1>1, <1>2, <1>3 DEF Control, Stands

\* Something ends the turn: only of a turn that nothing ended yet.
LEMMA EndsControlled ==
  ASSUME TaskAssumption, Typed, Begun, Control, concluded' = concluded, NEW why \in Reasons,
         EndsAs(why), task.turn.reason = "running" => Under, why \notin {"running", "completed"},
         Answering, task.sends = {} => task'.sends = {}, holder' = holder, lock' = lock
  PROVE  Control' /\ Stands
<1>1. CASE task.turn.reason # "running"
  BY <1>1, ControlStands DEF EndsAs, Number, Answering
<1>2. CASE task.turn.reason = "running"
  <2>1. /\ Under /\ task.ending = {} /\ task.concluding = {} /\ InTurn /\ task.state # "stopping"
    BY <1>2 DEF Control, OneEnd, Under
  <2>2. /\ task'.turn.reason = why /\ task'.ending = {task.turn.n} /\ task'.concluding = {}
        /\ task'.state \in TURN_STATES /\ task'.turn.n = task.turn.n /\ ~ task'.ask
        /\ task'.claim = task.claim /\ task'.recheck = task.recheck
    BY <1>2, <2>1 DEF EndsAs, InTurn, TURN_STATES
  <2>3. Counted'
    BY <2>1, <2>2, CountedStands DEF Control
  <2>4. OneEnd'
    BY <2>2 DEF OneEnd, Under, InTurn, TURN_STATES
  <2>5. Routes'
    BY <2>1, <2>2
       DEF Control, Routes, Working, NeedsSettle, InTurn, TURN_STATES, SETTLE_STATES
  <2> QED
    BY <2>1, <2>3, <2>4, <2>5 DEF Control, Stands, InTurn, TURN_STATES, OVER
<1> QED
  BY <1>1, <1>2

\* A conclusion begins, of the turn that is under way.
LEMMA ConclusionControlled ==
  ASSUME TaskAssumption, Typed, Begun, Control, concluded' = concluded, NEW c,
         c.at = "cleanup", Under, task'.turn.reason # "running",
         task'.turn.reason = task.turn.reason
           \/ (task.turn.reason = "running" /\ task'.turn.reason = "completed"),
         task'.turn.n = task.turn.n, task'.ending = {}, task'.concluding = {c},
         task.state = "stopping" => task'.state = "stopping",
         InTurn => InTurn', task'.claim = task.claim, task'.recheck = task.recheck,
         holder' = holder, lock' = lock, task.concluding = {}
  PROVE  Control' /\ Stands
<1>1. Counted'
  BY CountedStands DEF Control
<1>2. OneEnd'
  <2>1. Under' /\ (task'.state = "stopping" => task'.turn.reason = "stop")
    BY DEF Control, OneEnd, Under, InTurn, TURN_STATES
  <2>2. \A d \in task'.concluding : d.at # "follow"
    OBVIOUS
  <2> QED
    BY <2>1, <2>2 DEF OneEnd
<1>3. Routes'
  BY DEF Control, Routes, Working, NeedsSettle, Under, InTurn, TURN_STATES, SETTLE_STATES
<1> QED
  BY <1>1, <1>2, <1>3 DEF Control, Stands, Under, InTurn, TURN_STATES, OVER

\* The steps that conclude nothing.
LEMMA ControlStep ==
  ASSUME TaskAssumption, Typed, Begun, Control, Quiet, Next, concluded' = concluded
  PROVE  Control' /\ Stands
<1>0. /\ task.turn.n \in Nat /\ task.state \in States /\ task.after \in SETTLE_STATES
      /\ FINAL_STATE[task.turn.reason] \in SETTLE_STATES
      /\ task.sends \subseteq SendType /\ task.concluding \subseteq ConclusionType
      /\ task.turn.n # 0 => task.turn.n \in Turns /\ task.turn.n <= MaxTurns
      /\ Reasons = {"running", "completed", "stop", "policy_timeout", "update", "crash",
                    "turn_start_timeout", "step_cap"}
  BY FieldTypes DEF Reasons
<1>b. task.turn.n = 0 => /\ ~ Under /\ ~ task.ask /\ task.sends = {} /\ task.ending = {}
                        /\ task.concluding = {} /\ codex.turn = 0 /\ codex.starts = {}
                        /\ codex.inbox = <<>>
  BY DEF Begun
<1>c. /\ task.turn.reason = "running" /\ (\/ task.sends # {} \/ task.ask \/ task.turn.due
                                          \/ task.state = "waiting_on_you"
                                          \/ codex.starts # {} \/ codex.turn # 0
                                          \/ codex.inbox # <<>>)
           => Under
      /\ Under /\ task.turn.reason = "running" => /\ task.ending = {} /\ task.concluding = {}
                                                  /\ InTurn
      /\ ~ Under => task.ending = {} /\ task.concluding = {}
      /\ Under => task.claim = 0 /\ holder \notin {"turn", "end", "stop_leftovers"} /\ lock = "mine"
  BY DEF Control, OneEnd, Routes, Under, InTurn, NeedsSettle, Working, TURN_STATES, SETTLE_STATES
<1>d. holder \in {"nobody", "turn", "steer", "stop_leftovers", "end"}
  BY DEF Typed
<1>1. CASE Opened \/ Turn \/ Resumed
  <2>1. CASE Opened
    <3>1. /\ task.turn.n = 0 /\ holder = "nobody" /\ task.state = "opening" /\ lock = "mine"
          /\ task.claim = 0
      BY <2>1, NewTurnIs DEF Begun, Control, Routes, Working, NeedsSettle, SETTLE_STATES
    <3> QED
      BY <1>b, <2>1, <3>1, NewTurnIs, BeginsControlled DEF OVER
  <2>2. CASE Turn
    <3>1. /\ Free /\ task.state = "idle" /\ lock' = "mine" /\ ~ Under /\ task.claim = 0
      BY <2>2, NewTurnIs DEF Under, InTurn, TURN_STATES, Control, Routes, NeedsSettle, SETTLE_STATES
    <3>2. CASE BeginsNew /\ holder' = holder /\ task'.concluding = task.concluding
      BY <1>c, <3>1, <3>2, BeginsControlled DEF OVER, Free
    <3>3. CASE task' = task /\ codex' = codex /\ holder' = "turn"
      BY <3>1, <3>3 DEF Control, OneEnd, Routes, Counted, Stands, Under, InTurn, Working, OVER,
                        NeedsSettle
    <3> QED
      BY <2>2, <3>2, <3>3, NewTurnIs
  <2>3. CASE Resumed
    <3>1. /\ BeginsNew /\ task.state = "idle" /\ lock' = "mine" /\ ~ Under /\ task.claim = 0
          /\ holder' = "nobody" /\ task'.concluding = task.concluding
      BY <2>3, NewTurnIs DEF Under, InTurn, TURN_STATES, Control, Routes, NeedsSettle, SETTLE_STATES
    <3> QED
      BY <1>c, <3>1, BeginsControlled DEF OVER
  <2> QED
    BY <1>1, <2>1, <2>2, <2>3
<1>2. CASE Sends
  <2>1. PICK s \in task.sends : SendAnswered(s) \/ SendFailed(s) \/ SendTimesOut(s)
    BY <1>2 DEF Sends
  <2>2. CASE SendAnswered(s)
    <3>1. /\ Begins(s.n) /\ task'.sends = task.sends \ {s} /\ codex' = codex
          /\ holder' = holder /\ lock' = lock
      BY <2>2, SendIs
    <3>2. CASE task'.state = task.state
      BY <3>1, <3>2, ControlStands DEF Begins, Rest
    <3>3. CASE task.state = "starting" /\ task'.state = "running"
      <4>1. Counted'
        BY <3>1, <3>3, CountedStands DEF Control, Begins, Number, Under, InTurn, TURN_STATES
      <4>2. OneEnd'
        BY <3>1, <3>3 DEF Control, OneEnd, Begins, Number, Under, InTurn, TURN_STATES
      <4>3. Routes'
        BY <3>1, <3>3 DEF Control, Routes, Begins, Number, Rest, Working, NeedsSettle, InTurn,
                          TURN_STATES, SETTLE_STATES
      <4> QED
        BY <3>3, <4>1, <4>2, <4>3 DEF Control, Stands, OVER
    <3> QED
      BY <3>1, <3>2, <3>3 DEF Begins
  <2>3. CASE SendFailed(s)
    <3> DEFINE c == [by |-> "send", n |-> s.n, at |-> "cleanup"]
    <3>1. task.turn.reason = "running" /\ Under
      BY <1>c, <2>1, <2>3, SendIs DEF Quiet
    <3>2. /\ task'.turn.reason = "completed" /\ task'.turn.n = task.turn.n
          /\ task'.ending = {} /\ task'.concluding = {c} /\ task'.state = task.state
          /\ task'.claim = task.claim /\ task'.recheck = task.recheck
          /\ holder' = holder /\ lock' = lock /\ InTurn
      BY <1>c, <2>3, <3>1, SendIs DEF Rest
    <3>3. c.at = "cleanup" /\ task.concluding = {} /\ InTurn'
      BY <1>c, <3>1, <3>2 DEF InTurn
    <3> HIDE DEF c
    <3> QED
      BY <3>1, <3>2, <3>3, ConclusionControlled DEF InTurn
  <2>4. CASE SendTimesOut(s)
    BY <1>0, <1>c, <2>1, <2>4, EndsAsIs, EndsControlled
  <2> QED
    BY <2>1, <2>2, <2>3, <2>4
<1>3. CASE Consumes
  <2>1. Takes /\ task'.sends = task.sends
    BY <1>3, ConsumesIs DEF Consumes, Takes
  <2>2. CASE TurnStarted
    <3>1. Begins(Message.n)
      BY <2>2, ConsumesIs
    <3>2. CASE task'.state = task.state
      BY <2>1, <3>1, <3>2, ControlStands DEF Begins, Rest, Takes
    <3>3. CASE task.state = "starting" /\ task'.state = "running"
      <4>1. Counted'
        BY <3>1, <3>3, CountedStands DEF Control, Begins, Number, Under, InTurn, TURN_STATES
      <4>2. OneEnd'
        BY <3>1, <3>3 DEF Control, OneEnd, Begins, Number, Under, InTurn, TURN_STATES
      <4>3. Routes'
        BY <2>1, <3>1, <3>3 DEF Control, Routes, Begins, Number, Rest, Working, NeedsSettle, InTurn,
                          TURN_STATES, SETTLE_STATES, Takes
      <4> QED
        BY <3>3, <4>1, <4>2, <4>3 DEF Control, Stands, OVER
    <3> QED
      BY <3>1, <3>2, <3>3 DEF Begins
  <2>3. CASE TurnCompleted
    <3>1. CASE /\ task'.turn.reason = task.turn.reason /\ task'.state = task.state
               /\ task'.concluding = task.concluding /\ task'.ask = task.ask
      BY <2>1, <3>1, ControlStands DEF Takes, Rest, Number
    <3>2. CASE /\ task.turn.reason = "running" /\ task'.turn.reason = "completed"
               /\ task'.state = (IF task.ask /\ task.state = "waiting_on_you" THEN "running"
                                 ELSE task.state)
               /\ task'.concluding = task.concluding \cup
                         {[by |-> "consumer", n |-> task.turn.n, at |-> "cleanup"]}
      <4> DEFINE c == [by |-> "consumer", n |-> task.turn.n, at |-> "cleanup"]
      <4>1. /\ Under /\ InTurn /\ task.concluding = {} /\ task.ending = {}
        BY <1>c, <2>1, <3>2 DEF Takes
      <4>2. /\ task'.concluding = {c} /\ task'.ending = {} /\ c.at = "cleanup" /\ InTurn'
            /\ task.state = "stopping" => task'.state = "stopping"
            /\ task'.turn.n = task.turn.n /\ task'.claim = task.claim
            /\ task'.recheck = task.recheck /\ holder' = holder /\ lock' = lock
        BY <2>1, <3>2, <4>1 DEF Takes, Rest, InTurn, TURN_STATES
      <4> HIDE DEF c
      <4> QED
        BY <3>2, <4>1, <4>2, ConclusionControlled
    <3> QED
      BY <2>3, <3>1, <3>2, ConsumesIs
  <2>4. CASE CodexRequest
    <3>1. /\ task'.turn.reason = task.turn.reason /\ task'.concluding = task.concluding
          /\ task'.ending = task.ending /\ task'.turn.n = task.turn.n
      BY <2>1, <2>4, ConsumesIs DEF Takes
    <3>2. CASE ~ Offered
      BY <2>1, <2>4, <3>1, <3>2, ConsumesIs, ControlStands DEF Takes, Rest, Number
    <3>3. CASE Offered
      <4>1. /\ InTurn /\ InTurn' /\ Under /\ Under'
            /\ task.state # "stopping" /\ task'.state # "stopping"
        BY <2>4, <3>3, ConsumesIs DEF Offered, InTurn, Under, TURN_STATES
      <4>2. Counted'
        BY <3>1, <4>1, CountedStands DEF Control
      <4>3. OneEnd'
        BY <3>1, <4>1 DEF Control, OneEnd
      <4>4. Routes'
        BY <1>c, <2>1, <4>1 DEF Control, Routes, Takes, Rest, Working, NeedsSettle
      <4> QED
        BY <4>1, <4>2, <4>3, <4>4 DEF Control, Stands, OVER, InTurn, TURN_STATES
    <3> QED
      BY <3>2, <3>3
  <2> QED
    BY <1>3, <2>2, <2>3, <2>4 DEF Consumes
<1>4. CASE StepCap \/ Policies
  <2>1. PICK why \in {"policy_timeout", "update"} : StepCap \/ PolicyFires(why)
    BY <1>4 DEF Policies
  <2>2. CASE StepCap
    BY <1>0, <1>c, <2>2, EndsAsIs, EndsControlled
  <2>3. CASE PolicyFires(why)
    BY <1>0, <1>c, <2>3, EndsAsIs, EndsControlled
  <2> QED
    BY <2>1, <2>2, <2>3
<1>5. CASE Answer
  <2>1. /\ Number(task', task) /\ Work(task', task) /\ Rest(task', task)
        /\ ~ task'.ask /\ Answering /\ holder' = holder /\ lock' = lock
        /\ task'.state = IF task.ask /\ task.state = "waiting_on_you" THEN "running"
                         ELSE task.state
    BY <1>5, AnswerIs
  <2>2. CASE task'.state = task.state
    BY <2>1, <2>2, ControlStands DEF Work, Rest, Answering
  <2>3. CASE task.state = "waiting_on_you" /\ task'.state = "running"
    <3>1. Counted'
      BY <2>1, <2>3, CountedStands DEF Control, Work, Number, Under, InTurn, TURN_STATES
    <3>2. OneEnd'
      BY <2>1, <2>3 DEF Control, OneEnd, Work, Number, Under, InTurn, TURN_STATES
    <3>3. Routes'
      BY <2>1, <2>3 DEF Control, Routes, Number, Rest, Working, NeedsSettle, InTurn,
                        TURN_STATES, SETTLE_STATES
    <3> QED
      BY <2>3, <3>1, <3>2, <3>3 DEF Control, Stands, OVER
  <2> QED
    BY <2>1, <2>2, <2>3
<1>6. CASE Stop \/ Cancel
  <2>1. /\ Stops /\ Answering /\ Free /\ lock' = lock
        /\ holder' = holder \/ (holder' = "end" /\ task.state = "idle")
    BY <1>6, StopsIs
  <2>2. CASE InTurn /\ task.turn.reason = "running"
    <3>1. /\ task'.turn.reason = "stop" /\ task'.ending = {task.turn.n} /\ task'.concluding = {}
          /\ task'.state = "stopping" /\ task'.turn.n = task.turn.n /\ ~ task'.ask
          /\ task'.claim = task.claim /\ task'.recheck = task.recheck /\ holder' = holder
          /\ Under
      BY <1>c, <2>1, <2>2 DEF Stops, Rest, Under, InTurn, TURN_STATES
    <3>2. Counted'
      BY <1>c, <2>2, <3>1, CountedStands DEF Control
    <3>3. OneEnd'
      BY <3>1 DEF OneEnd, Under, InTurn, TURN_STATES
    <3>4. Routes'
      BY <1>c, <2>1, <3>1
         DEF Control, Routes, Working, NeedsSettle, InTurn, TURN_STATES, SETTLE_STATES
    <3> QED
      BY <2>2, <3>1, <3>2, <3>3, <3>4 DEF Control, Stands, InTurn, TURN_STATES, OVER
  <2>3. CASE ~ InTurn \/ task.turn.reason # "running"
    <3>1. /\ Number(task', task) /\ task'.state = task.state /\ task'.ending = task.ending
          /\ task'.concluding = task.concluding /\ task'.recheck = task.recheck
          /\ task'.ask = task.ask /\ task'.sends = task.sends /\ task'.claim = task.claim
      BY <2>1, <2>3 DEF Stops, Number, Rest
    <3>2. CASE holder' = holder
      BY <2>1, <3>1, <3>2, ControlStands DEF Answering
    <3>3. CASE holder' = "end" /\ task.state = "idle"
      <4>1. Counted'
        BY <3>1, CountedStands DEF Control, Number, Under, InTurn
      <4>2. OneEnd'
        BY <2>1, <3>1 DEF Control, OneEnd, Number, Under, InTurn, Answering
      <4>3. Routes'
        BY <2>1, <3>1, <3>3 DEF Control, Routes, Number, Working, NeedsSettle, InTurn, SETTLE_STATES
      <4> QED
        BY <3>1, <4>1, <4>2, <4>3 DEF Control, Stands
    <3> QED
      BY <2>1, <3>2, <3>3
  <2> QED
    BY <2>2, <2>3
<1>7. CASE TaskTold
  <2>1. Answering /\ task'.sends = task.sends /\ holder' = holder /\ lock' = lock
    BY <1>7, EndsAsIs
  <2>2. CASE Under
    BY <1>0, <1>7, <2>1, <2>2, EndsAsIs, EndsControlled
  <2>3. CASE ~ Under
    BY <1>7, <2>1, <2>3, EndsAsIs, ControlStands DEF Answering
  <2> QED
    BY <2>2, <2>3
<1>8. CASE Interrupts \/ EndSequences
  <2>1. PICK n \in Turns : Interrupted(n) \/ EndSequence(n)
    BY <1>8 DEF Interrupts, EndSequences
  <2>2. /\ n \in task.ending /\ Under /\ task.ending = {task.turn.n} /\ n = task.turn.n
        /\ task.concluding = {} /\ task.turn.reason # "running"
    BY <1>c, <2>1 DEF Interrupted, EndSequence, Control, OneEnd
  <2>3. CASE Interrupted(n)
    <3>1. task' = task /\ holder' = holder /\ lock' = lock
      BY <2>3 DEF Interrupted
    <3>2. Counted'
      BY <3>1, CountedStands DEF Control, Under, InTurn
    <3>3. OneEnd'
      BY <2>2, <3>1 DEF Control, OneEnd, Under, InTurn
    <3>4. Routes'
      BY <3>1 DEF Control, Routes, Working, NeedsSettle, InTurn
    <3> QED
      BY <3>1, <3>2, <3>3, <3>4 DEF Control, Stands
  <2>4. CASE EndSequence(n)
    <3> DEFINE c == [by |-> "sequence", n |-> n, at |-> "cleanup"]
               d == task.ending \ {n}
               e == task.concluding \cup {c}
    <3>1. task' = [task EXCEPT !.ending = d, !.concluding = e] /\ holder' = holder /\ lock' = lock
      BY <2>4 DEF EndSequence, Typed, TaskType
    <3>2. d = {} /\ e = {c} /\ c.at = "cleanup"
      BY <2>2
    <3> HIDE DEF c, d, e
    <3>3. /\ task'.turn = task.turn /\ task'.ending = {} /\ task'.concluding = {c}
          /\ task'.state = task.state /\ task'.claim = task.claim /\ task'.recheck = task.recheck
      BY <3>1, <3>2 DEF Typed, TaskType
    <3> QED
      BY <2>2, <3>1, <3>2, <3>3, ConclusionControlled DEF InTurn
  <2> QED
    BY <2>1, <2>3, <2>4
<1>9. CASE FollowOns
  <2>1. PICK c \in task.concluding : FollowOn(c)
    BY <1>9 DEF FollowOns
  <2>2. /\ task.turn.n \in Turns /\ Under /\ lock = "mine" /\ task.claim = 0
        /\ task.concluding = {c} /\ task.ending = {}
    BY <1>0, <1>b, <1>c, <2>1 DEF Control, OneEnd
  <2>3. /\ Free /\ c.at = "follow" /\ holder' = holder /\ task'.concluding = {}
        /\ BeginsNew /\ lock' = "mine"
    BY <2>1, <2>2, EndingIs DEF MayTake
  <2>4. task.turn.reason = "completed" /\ task.state # "stopping" /\ task.state \notin OVER
    BY <2>2, <2>3 DEF Control, OneEnd, Under, InTurn, TURN_STATES, OVER
  <2> QED
    BY <2>2, <2>3, <2>4, BeginsControlled DEF Free
<1>10. CASE Create \/ OpeningFails
  <2>1. /\ task.state \in {"none", "opening"} /\ task'.state \in {"opening", "failed"}
        /\ task'.state = "opening" => lock' = "mine"
        /\ Keeps(task', task) /\ holder' = holder /\ codex' = codex
    BY <1>10, SimpleIs
  <2>2. task.turn.n = 0 /\ holder = "nobody" /\ task.claim = 0 /\ ~ Under'
    BY <2>1 DEF Begun, Control, Routes, NeedsSettle, SETTLE_STATES, Under, InTurn, TURN_STATES
  <2>3. Counted'
    BY <2>1, <2>2, CountedStands DEF Control, Keeps, Number
  <2>4. OneEnd'
    <3>1. /\ ~ Under /\ task'.state # "stopping" /\ task'.concluding = task.concluding
          /\ task'.ending = task.ending /\ task'.turn.reason = task.turn.reason
      BY <2>1 DEF Keeps, Number, Work, Under, InTurn, TURN_STATES
    <3>2. task.turn.reason = "running" => task'.sends = {} /\ ~ task'.ask /\ ~ task'.turn.due
      BY <1>c, <2>1, <3>1 DEF Keeps, Number, Work
    <3> QED
      BY <1>b, <2>1, <2>2, <3>1, <3>2 DEF OneEnd
  <2>5. Routes'
    BY <2>1, <2>2 DEF Control, Routes, Keeps, Number, Rest, Working, NeedsSettle, SETTLE_STATES,
                      InTurn, TURN_STATES
  <2> QED
    BY <2>1, <2>3, <2>4, <2>5 DEF Control, Stands, OVER
<1>11. CASE ResumeFails \/ SteerWithoutTurn \/ Steer \/ Steered
  <2>1. /\ task'.state = task.state /\ Keeps(task', task) /\ codex' = codex
        /\ holder' \in {"nobody", "steer"} /\ (lock = "mine" => lock' = "mine")
    BY <1>11, SimpleIs DEF Keeps, Number, Work, Rest, Outcome
  <2>2. Counted'
    BY <2>1, CountedStands DEF Control, Keeps, Number, Work, Under, InTurn
  <2>3. OneEnd'
    BY <2>1 DEF Control, OneEnd, Keeps, Number, Work, Under, InTurn
  <2>4. Routes'
    BY <2>1 DEF Control, Routes, Keeps, Number, Rest, Working, NeedsSettle, InTurn
  <2> QED
    BY <2>1, <2>2, <2>3, <2>4 DEF Control, Stands
<1>12. CASE ClaimSettle \/ ClaimExpires
  <2>1. /\ task'.state = task.state /\ Number(task', task) /\ Work(task', task)
        /\ task'.recheck = task.recheck /\ task'.ask = task.ask
        /\ codex' = codex /\ lock' = lock /\ holder' = holder
        /\ \/ Free /\ NeedsSettle /\ task'.claim = task.turn.n + 1
           \/ task'.claim = 0
    BY <1>12, SimpleIs
  <2>2. CASE Free /\ NeedsSettle /\ task'.claim = task.turn.n + 1
    <3>1. Counted'
      BY <2>1, CountedStands DEF Control, Number, Work, Under, InTurn
    <3>2. OneEnd'
      BY <2>1 DEF Control, OneEnd, Number, Work, Under, InTurn
    <3>3. Routes'
      BY <2>1, <2>2 DEF Control, Routes, Number, Working, NeedsSettle, InTurn, Free
    <3> QED
      BY <2>1, <3>1, <3>2, <3>3 DEF Control, Stands
  <2>3. CASE task'.claim = 0
    BY <2>1, <2>3, ControlStands DEF Work
  <2> QED
    BY <2>1, <2>2, <2>3
<1>13. CASE \/ StopLeftovers \/ LeftoversStopped \/ RecheckBegins \/ Recheck
            \/ Settles \/ Delete
  <2>1. ~ RecheckBegins
    BY SettlingIs DEF Quiet
  <2>2. /\ Number(task', task) /\ Work(task', task) /\ task'.ask = task.ask /\ codex' = codex
        /\ task'.recheck = {} /\ task'.claim \in {0, task.claim}
    BY <1>13, <2>1, SettlingIs DEF Control, Routes, Number, Work, Rest
  <2>3. /\ task.state \in SETTLE_STATES \cup {"leftover", "idle"}
        /\ task'.state \in SETTLE_STATES \cup {"leftover", "idle"}
        /\ \/ task'.state # "idle" /\ task.state # "idle" /\ lock' = lock
           \/ task'.state = "idle" /\ task.state = "idle" /\ lock' = lock
           \/ task'.state = "idle" /\ Settles
        /\ task'.state \in SETTLE_STATES \/ task'.claim = 0 \/ task'.state = task.state
    BY <1>0, <1>13, <2>1, SettlingIs
       DEF Control, Routes, NeedsSettle, SETTLE_STATES, Rest
  <2>4. /\ ~ Under /\ ~ Under'
    BY <2>3 DEF Under, InTurn, TURN_STATES, SETTLE_STATES
  <2>5. Counted'
    BY <2>2, <2>4, CountedStands DEF Control, Number
  <2>6. OneEnd'
    BY <2>2, <2>4 DEF Control, OneEnd, Number, Work, Under
  <2>7. Routes'
    <3>1. task'.claim # 0 => NeedsSettle' /\ task'.claim = task'.turn.n + 1
      BY <2>2, <2>3 DEF Control, Routes, NeedsSettle, Number
    <3>2. Working' => lock' = "mine"
      BY <2>3, <2>4 DEF Control, Routes, Working, NeedsSettle, Under, SETTLE_STATES
    <3>3. CASE StopLeftovers
      <4>1. /\ task' = task /\ task.state = "leftover" /\ holder' = "stop_leftovers"
        BY <3>3, SettlingIs
      <4> QED
        BY <2>2, <3>1, <3>2, <4>1 DEF Routes
    <3>4. CASE LeftoversStopped
      BY <2>2, <3>1, <3>2, <3>4, SettlingIs DEF Routes
    <3>5. CASE Recheck
      <4>1. /\ task.state = "leftover" /\ holder' = holder /\ lock' = lock
            /\ task'.state \in {task.state, task.after}
        BY <3>5, SettlingIs DEF Control, Routes
      <4> QED
        BY <1>0, <2>2, <3>1, <3>2, <4>1 DEF Control, Routes, SETTLE_STATES
    <3>6. CASE Settles
      <4>1. /\ Free /\ NeedsSettle /\ task'.claim = 0
            /\ \/ task'.state = task.state /\ holder' = "end"
               \/ task'.state = "idle" /\ holder' = holder
        BY <3>6, SettlingIs
      <4> QED
        BY <2>2, <3>1, <3>2, <4>1 DEF Control, Routes, NeedsSettle, Free
    <3>7. CASE Delete
      <4>1. task' = task /\ task.state = "idle" /\ holder' = "end"
        BY <3>7, SettlingIs
      <4> QED
        BY <2>2, <3>1, <3>2, <4>1 DEF Control, Routes, NeedsSettle, SETTLE_STATES
    <3> QED
      BY <1>13, <2>1, <3>3, <3>4, <3>5, <3>6, <3>7
  <2> QED
    BY <2>3, <2>5, <2>6, <2>7 DEF Control, Stands, OVER, SETTLE_STATES
<1>14. CASE Ended
  <2>1. /\ holder = "end" /\ holder' = "nobody" /\ codex' = codex
        /\ Number(task', task) /\ task'.state = "ended"
        /\ task'.concluding = {c \in task.concluding : c.by # "consumer"}
        /\ task'.sends = task.sends /\ task'.ending = task.ending
        /\ task'.claim = task.claim /\ task'.recheck = task.recheck
        /\ task'.ask = task.ask
    BY <1>14, SettlingIs
  <2>2. ~ Under /\ ~ Under' /\ task.claim = 0 /\ task.state \in SETTLE_STATES \cup {"idle"}
    BY <2>1 DEF Control, Routes, Under, InTurn, TURN_STATES, SETTLE_STATES
  <2>3. task'.concluding = {}
    BY <1>c, <2>1, <2>2
  <2>4. Counted'
    BY <2>1, <2>2, CountedStands DEF Control, Number
  <2>5. OneEnd'
    BY <2>1, <2>2, <2>3 DEF Control, OneEnd, Number, Under
  <2>6. Routes'
    BY <2>1, <2>2 DEF Control, Routes, Working, NeedsSettle, Under, SETTLE_STATES
  <2> QED
    BY <2>1, <2>2, <2>4, <2>5, <2>6 DEF Control, Stands, OVER, SETTLE_STATES
<1>15. CASE (\E n \in Turns : CodexTakes(n)) \/ CodexAsks \/ \E failed \in BOOLEAN : CodexCompletes(failed)
  <2>1. /\ Number(task', task) /\ task'.state = task.state /\ task'.ending = task.ending
        /\ task'.concluding = task.concluding /\ task'.recheck = task.recheck
        /\ task'.ask = task.ask /\ task'.claim = task.claim
        /\ holder' = holder /\ lock' = lock
    <3>1. CASE CodexAsks \/ \E failed \in BOOLEAN : CodexCompletes(failed)
      BY <3>1 DEF CodexAsks, CodexCompletes, Number
    <3>2. CASE \E n \in Turns : CodexTakes(n)
      BY <3>2 DEF CodexTakes, Number, Typed, TaskType
    <3> QED
      BY <1>15, <3>1, <3>2
  <2>2. codex.starts # {} \/ codex.turn # 0
    BY <1>15 DEF CodexTakes, CodexAsks, CodexCompletes
  <2>3. Counted'
    BY <2>1, CountedStands DEF Control, Number, Under, InTurn
  <2>4. Under \/ task.turn.reason # "running"
    BY <1>c, <2>2
  <2>5. OneEnd'
    BY <2>1, <2>4 DEF Control, OneEnd, Number, Under, InTurn
  <2>6. Routes'
    BY <2>1 DEF Control, Routes, Number, Working, NeedsSettle, InTurn
  <2> QED
    BY <2>1, <2>3, <2>5, <2>6 DEF Control, Stands
<1>16. CASE \/ CodexEnds \/ CodexStarts \/ Sample
            \/ \E p \in Procs : CommandStarts(p) \/ CommandEnds(p) \/ CommandStrays(p)
  <2>1. /\ Number(task', task) /\ task'.state = task.state /\ task'.ending = task.ending
        /\ task'.concluding = task.concluding /\ task'.recheck = task.recheck
        /\ task'.ask = task.ask /\ task'.claim = task.claim
        /\ holder' = holder /\ lock' = lock
        /\ task.sends = {} => task'.sends = {}
        /\ codex.starts = {} => codex'.starts = {}
        /\ codex'.inbox = codex.inbox /\ codex'.turn \in {0, codex.turn}
    <3>1. CASE CodexEnds
      BY <3>1 DEF CodexEnds, Number, Typed, TaskType, CodexType
    <3>2. CASE CodexStarts
      BY <3>2 DEF CodexStarts, Number, Typed, CodexType
    <3>3. CASE Sample \/ \E p \in Procs : CommandStarts(p) \/ CommandEnds(p) \/ CommandStrays(p)
      BY <3>3 DEF Sample, CommandStarts, CommandEnds, CommandStrays, Number
    <3> QED
      BY <1>16, <3>1, <3>2, <3>3
  <2> QED
    BY <2>1, ControlStands
<1>17. CASE OthersLock
  <2>1. /\ task' = task /\ codex' = codex /\ holder' = holder
        /\ lock = "mine" => task.state = "idle" /\ holder # "turn"
    BY <1>17 DEF OthersLock, outside
  <2>2. task.state = "idle" => ~ Working
    BY DEF Working, InTurn, NeedsSettle, TURN_STATES, SETTLE_STATES
  <2> QED
    BY <2>1, <2>2, ControlStands DEF Number
<1>18. CASE Restart
  <2>1. Restarted
    BY <1>18, RestartIs
  <2>2. /\ task'.state \in SETTLE_STATES \cup {"idle", "leftover"}
        /\ task'.state # "idle" => Working
    BY <1>0, <2>1 DEF Restarted, Read, Left, States, Working, Under, NeedsSettle, SETTLE_STATES, OVER,
                      InTurn, TURN_STATES
  <2>3. ~ Under' /\ lock' = lock
    BY <2>1, <2>2 DEF Under, InTurn, TURN_STATES, SETTLE_STATES, Restarted
  <2>4. Counted'
    BY <2>1, <2>3, CountedStands DEF Control, Restarted
  <2>5. OneEnd'
    BY <2>1, <2>3 DEF OneEnd, Restarted, Under
  <2>6. Routes'
    BY <2>1, <2>2, <2>3 DEF Control, Routes, Restarted, Working, NeedsSettle, Under, SETTLE_STATES
  <2>7. task.state = "stopping" => task'.state \in {"leftover", "uncertain"}
    BY <2>1 DEF Restarted, Read, Under
  <2> QED
    BY <2>1, <2>4, <2>5, <2>6, <2>7 DEF Control, Stands, Restarted
<1>19. CASE Conclusions
  BY <1>19, ConcludeControlled
\* What the tick finds due is of a turn that is under way.
<1>20. CASE PolicyDue
  <2>1. /\ task.ask /\ task.turn.reason = "running" /\ task'.state = task.state
        /\ task'.turn.n = task.turn.n /\ task'.turn.reason = task.turn.reason
        /\ task'.ending = task.ending /\ task'.concluding = task.concluding
        /\ task'.recheck = task.recheck /\ task'.claim = task.claim
        /\ lock' = lock /\ holder' = holder
    BY <1>20, SimpleIs DEF Work, Rest
  <2>2. Under /\ Under' /\ (Working' <=> Working) /\ (NeedsSettle' <=> NeedsSettle)
    BY <1>c, <2>1 DEF Under, InTurn, Working, NeedsSettle
  <2>3. Counted'
    BY <2>1, <2>2, CountedStands DEF Control
  <2>4. OneEnd'
    BY <2>1, <2>2 DEF Control, OneEnd
  <2>5. Routes'
    BY <2>1, <2>2 DEF Control, Routes
  <2> QED
    BY <2>1, <2>3, <2>4, <2>5 DEF Control, Stands
<1> QED
  BY <1>1, <1>2, <1>3, <1>4, <1>5, <1>6, <1>7, <1>8, <1>9, <1>10, <1>11, <1>12, <1>13, <1>14,
     <1>15, <1>16, <1>17, <1>18, <1>19, <1>20 DEF Next

LEMMA QuietIs ==
  ASSUME NEW tolerated, tolerated \subseteq {"deaf", "blind", "found"}, Only(tolerated)
  PROVE  Quiet
BY DEF Only, Quiet

Controlled == Typed /\ Begun /\ (Quiet => Control)

LEMMA ControlledInit ==
  ASSUME TaskAssumption, Init PROVE Controlled
<1>1. Typed /\ Begun
  BY TypedInit
<1>2. /\ task.turn.n = 0 /\ ~ task.turn.due /\ task.state = "none" /\ ~ task.ask /\ task.sends = {}
      /\ task.ending = {} /\ task.concluding = {} /\ task.recheck = {} /\ task.claim = 0
      /\ codex.turn = 0 /\ codex.starts = {} /\ codex.inbox = <<>> /\ holder = "nobody"
  BY DEF Init, NewTask, Started
<1>3. ~ Under /\ ~ Working
  BY <1>2 DEF Under, Working, InTurn, NeedsSettle, TURN_STATES, SETTLE_STATES
<1>4. Counted
  BY <1>3 DEF Init, Counted
<1>5. OneEnd /\ Routes
  BY <1>2, <1>3 DEF OneEnd, Routes
<1> QED
  BY <1>1, <1>4, <1>5 DEF Controlled, Control

LEMMA ControlledStep ==
  ASSUME TaskAssumption, Controlled, [Next]_vars
  PROVE  Controlled' /\ (Quiet => Stands)
<1>1. Typed' /\ Begun'
  BY TypedStep DEF Controlled
<1>2. CASE Next
  <2>1. Quiet' <=> Quiet
    BY <1>2, OthersStand DEF Quiet
  <2>2. Quiet => Control' /\ Stands
    BY <1>2, ControlStep, ConcludeControlled, OthersStand DEF Controlled
  <2> QED
    BY <1>1, <2>1, <2>2 DEF Controlled
<1>3. CASE UNCHANGED vars
  <2>1. Control => Control'
    BY <1>3 DEF vars, Control, OneEnd, Routes, Counted, Under, InTurn, Working, NeedsSettle
  <2>2. (Quiet' <=> Quiet) /\ (Quiet => Stands)
    BY <1>3 DEF vars, Quiet, Stands, OVER
  <2> QED
    BY <1>1, <2>1, <2>2 DEF Controlled
<1> QED
  BY <1>2, <1>3

\* The project is this task's from the moment a turn may write until its work is settled,
\* whatever routes, conclusions, looks and messages come between, for any number of turns
\* and of failures of Codex and of RAVIS, and when Codex is deaf, ps blind, or a look misses
\* commands that a later one finds.
THEOREM LockAlwaysCoversWork == Spec => []LockCoversWork
<1>1. Init => Controlled
  BY TaskAssumption, ControlledInit
<1>2. Controlled /\ [Next]_vars => Controlled'
  BY TaskAssumption, ControlledStep
<1>3. Controlled => LockCoversWork
  BY QuietIs DEF Controlled, Control, Routes, LockCoversWork
<1> QED
  BY <1>1, <1>2, <1>3, PTL DEF Spec

\* However many of a turn's ends come to conclude it, one does.
THEOREM TurnsAreConcludedOnce == Spec => []OneConclusion
<1>1. Init => Controlled
  BY TaskAssumption, ControlledInit
<1>2. Controlled /\ [Next]_vars => Controlled'
  BY TaskAssumption, ControlledStep
<1>3. Controlled => OneConclusion
  BY QuietIs DEF Controlled, Control, Counted, OneConclusion
<1> QED
  BY <1>1, <1>2, <1>3, PTL DEF Spec

\* No claim outlives the turn it was made for.
THEOREM ClaimsAreForTheirTurn == Spec => []ClaimIsForThisTurn
<1>1. Init => Controlled
  BY TaskAssumption, ControlledInit
<1>2. Controlled /\ [Next]_vars => Controlled'
  BY TaskAssumption, ControlledStep
<1>3. Controlled => ClaimIsForThisTurn
  BY QuietIs DEF Controlled, Control, Routes, ClaimIsForThisTurn
<1> QED
  BY <1>1, <1>2, <1>3, PTL DEF Spec

\* A task that is over stays over, and a Stop under way is concluded as one.
THEOREM EndsStand == Spec => EndingsStand
<1> DEFINE A == Only({"deaf", "blind", "found"}) =>
         /\ task.state \in OVER => task'.state = task.state
         /\ task.state = "stopping" =>
              task'.state \in {"stopping", "stopped", "leftover", "uncertain"}
<1>1. Init => Controlled
  BY TaskAssumption, ControlledInit
<1>2. Controlled /\ [Next]_vars => Controlled'
  BY TaskAssumption, ControlledStep
<1>3. Controlled /\ [Next]_vars => [A]_vars
  BY TaskAssumption, ControlledStep, QuietIs DEF Stands
<1> QED
  BY <1>1, <1>2, <1>3, PTL DEF Spec, EndingsStand

-----------------------------------------------------------------------------
(* What Codex does, when it obeys turn/interrupt.                         *)

Silent == codex.turn = 0 /\ codex.starts = {} /\ codex.inbox = <<>>

\* Codex is sent the task's turn, takes it and says so before anything else, and after a
\* turn's end has nothing more to say of it.
Heeds ==
  /\ codex.starts \subseteq {task.turn.n}
  /\ codex.starts # {} => codex.turn = 0 /\ codex.inbox = <<>>
  /\ codex.turn # 0 => codex.turn = task.turn.n
  /\ ~ Under \/ task.concluding # {} => Silent
  /\ \A s \in task.sends :
       /\ s.n <= task.turn.n
       /\ s.n = task.turn.n /\ s.answer # "taken" => codex.turn = 0 /\ codex.inbox = <<>>
  /\ \A i \in DOMAIN codex.inbox :
       codex.inbox[i].kind = "completed" => codex.turn = 0 /\ i = Len(codex.inbox)

\* A step that Codex has no part in.
LEMMA HeedsStands ==
  ASSUME Heeds, task'.turn.n = task.turn.n, task'.sends \subseteq task.sends,
         Under' <=> Under, task'.concluding # {} => task.concluding # {} \/ Silent,
         codex'.turn = codex.turn, codex'.starts = codex.starts, codex'.inbox = codex.inbox
  PROVE  Heeds'
BY DEF Heeds, Silent

\* A turn begins.
LEMMA HeedsBegins ==
  ASSUME TaskAssumption, Typed, Heeds, BeginsNew, Silent, codex'.inbox = <<>>,
         task'.concluding = {}
  PROVE  Heeds'
<1>0. /\ task.turn.n \in Nat /\ task.sends \subseteq SendType
      /\ \A s \in task.sends : s.n \in Nat
  BY FieldTypes DEF SendType, Turns
<1>1. PICK a \in {"none", "gone"} :
        task'.sends = task.sends \cup {[n |-> task.turn.n + 1, answer |-> a]}
  BY DEF BeginsNew
<1>2. /\ codex'.turn = 0 /\ codex'.starts \subseteq {task'.turn.n} /\ Under'
      /\ task'.turn.n = task.turn.n + 1
  BY DEF BeginsNew, Silent, Under, InTurn, TURN_STATES
<1>3. \A s \in task'.sends : s.n <= task'.turn.n
  <2>1. \A s \in task.sends : s.n <= task.turn.n
    BY DEF Heeds
  <2>2. ASSUME NEW s \in task.sends PROVE s.n <= task'.turn.n
    BY <1>0, <1>2, <2>1
  <2>3. [n |-> task.turn.n + 1, answer |-> a].n <= task'.turn.n
    BY <1>0, <1>2
  <2> QED
    BY <1>1, <2>2, <2>3
<1> QED
  BY <1>2, <1>3 DEF Heeds

\* A message more, from a turn that runs.
LEMMA HeedsSays ==
  ASSUME TaskAssumption, Typed, Heeds, NEW m, codex.turn # 0, task' = task,
         codex'.starts = codex.starts, codex'.inbox = Append(codex.inbox, m),
         codex'.turn \in {0, codex.turn}, m.kind = "completed" => codex'.turn = 0
  PROVE  Heeds'
<1>1. codex.inbox \in Seq(MessageType) /\ codex.starts = {} /\ Under /\ task.concluding = {}
  BY FieldTypes DEF Heeds, Silent
<1>2. \A i \in DOMAIN codex.inbox : codex.inbox[i].kind # "completed"
  BY DEF Heeds
<1> DEFINE q == Append(codex.inbox, m)
<1>3. /\ Len(q) = Len(codex.inbox) + 1 /\ q[Len(codex.inbox) + 1] = m
      /\ \A i \in 1 .. Len(codex.inbox) : q[i] = codex.inbox[i]
      /\ DOMAIN q = 1 .. Len(q) /\ Len(codex.inbox) \in Nat
      /\ DOMAIN codex.inbox = 1 .. Len(codex.inbox)
  BY <1>1
<1>4. \A i \in DOMAIN q : q[i].kind = "completed" => codex'.turn = 0 /\ i = Len(q)
  <2> SUFFICES ASSUME NEW i \in DOMAIN q, q[i].kind = "completed"
               PROVE  codex'.turn = 0 /\ i = Len(q)
    OBVIOUS
  <2> HIDE DEF q
  <2>1. i \in 1 .. Len(codex.inbox) \/ i = Len(codex.inbox) + 1
    BY <1>3
  <2>2. i \notin 1 .. Len(codex.inbox)
    BY <1>2, <1>3
  <2> QED
    BY <1>3, <2>1, <2>2
<1>5. \A s \in task.sends : s.n <= task.turn.n /\ (s.n = task.turn.n => s.answer = "taken")
  BY DEF Heeds
<1> HIDE DEF q
<1>6. codex'.inbox = q
  BY DEF q
<1> QED
  BY <1>1, <1>4, <1>5, <1>6 DEF Heeds, Silent, Under, InTurn

\* A message is taken; what is left came after it.
LEMMA HeedsTakes ==
  ASSUME TaskAssumption, Typed, Heeds, Takes, Under' <=> Under,
         task'.concluding # {} => task.concluding # {} \/ Message.kind = "completed"
  PROVE  Heeds'
<1>1. /\ codex.inbox \in Seq(MessageType) /\ codex.inbox # <<>> /\ codex.starts = {} /\ Under
      /\ task.concluding = {} /\ codex'.inbox = Tail(codex.inbox)
      /\ codex'.turn = codex.turn /\ codex'.starts = codex.starts
      /\ task'.turn.n = task.turn.n /\ task'.sends = task.sends
  BY FieldTypes DEF Heeds, Silent, Takes
<1> DEFINE q == Tail(codex.inbox)
<1>2. /\ Len(q) = Len(codex.inbox) - 1 /\ Len(codex.inbox) \in Nat /\ q \in Seq(MessageType)
      /\ \A i \in 1 .. Len(q) : q[i] = codex.inbox[i + 1]
      /\ DOMAIN q = 1 .. Len(q) /\ DOMAIN codex.inbox = 1 .. Len(codex.inbox)
      /\ Len(codex.inbox) # 0
  BY <1>1
<1>3. \A i \in DOMAIN q : q[i].kind = "completed" => codex'.turn = 0 /\ i = Len(q)
  <2> SUFFICES ASSUME NEW i \in DOMAIN q, q[i].kind = "completed"
               PROVE  codex'.turn = 0 /\ i = Len(q)
    OBVIOUS
  <2> HIDE DEF q
  <2>1. i \in Nat /\ i + 1 \in DOMAIN codex.inbox /\ codex.inbox[i + 1].kind = "completed"
    BY <1>2
  <2>2. codex.turn = 0 /\ i + 1 = Len(codex.inbox)
    BY <2>1 DEF Heeds
  <2> QED
    BY <1>1, <1>2, <2>1, <2>2
<1>4. task'.concluding # {} => codex.turn = 0 /\ q = <<>>
  <2> SUFFICES ASSUME Message.kind = "completed" PROVE codex.turn = 0 /\ q = <<>>
    BY <1>1
  <2>1. codex.inbox[1].kind = "completed" /\ 1 \in DOMAIN codex.inbox
    BY <1>1, <1>2 DEF Message
  <2>2. codex.turn = 0 /\ Len(codex.inbox) = 1
    BY <2>1 DEF Heeds
  <2> HIDE DEF q
  <2>3. Len(q) = 0
    BY <1>2, <2>2
  <2> QED
    BY <1>2, <2>2, <2>3
<1>5. \A s \in task.sends : s.n <= task.turn.n /\ (s.n = task.turn.n => s.answer = "taken")
  BY <1>1 DEF Heeds
<1> HIDE DEF q
<1>6. codex'.inbox = q
  BY <1>1 DEF q
<1> QED
  BY <1>1, <1>3, <1>4, <1>5, <1>6 DEF Heeds, Silent

LEMMA HeedsStep ==
  ASSUME TaskAssumption, Typed, Begun, Control, Heeds, Quiet, "deaf" \notin faults, Next
  PROVE  Heeds'
<1>0. /\ task.turn.n \in Nat /\ task.state \in States /\ task.after \in SETTLE_STATES
      /\ FINAL_STATE[task.turn.reason] \in SETTLE_STATES
      /\ task.sends \subseteq SendType /\ task.concluding \subseteq ConclusionType
      /\ task.turn.n # 0 => task.turn.n \in Turns /\ task.turn.n <= MaxTurns
  BY FieldTypes
<1>b. task.turn.n = 0 => Silent /\ task.sends = {} /\ task.concluding = {}
  BY DEF Begun, Silent
<1>c. /\ task.turn.reason = "running" /\ (\/ task.sends # {} \/ task.ask \/ codex.starts # {}
                                          \/ codex.turn # 0 \/ codex.inbox # <<>>)
           => Under
      /\ Under /\ task.turn.reason = "running" => /\ task.ending = {} /\ task.concluding = {}
                                                  /\ InTurn
      /\ task.ending # {} => task.concluding = {}
      /\ ~ Under => task.ending = {} /\ task.concluding = {}
      /\ ~ Under \/ task.concluding # {} => Silent
  BY DEF Control, OneEnd, Heeds, Under, InTurn, TURN_STATES
\* What ends a turn leaves it under way.
<1>d. ASSUME NEW why, EndsAs(why), Answering, task'.sends \subseteq task.sends
      PROVE  Heeds'
  <2>1. Under' <=> Under
    BY <1>d DEF EndsAs, Under, InTurn, TURN_STATES
  <2> QED
    BY <1>d, <2>1, HeedsStands DEF EndsAs, Answering
<1>1. CASE Opened \/ Turn \/ Resumed
  <2>1. CASE Opened
    <3>1. BeginsNew /\ task'.concluding = task.concluding /\ codex'.inbox = codex.inbox
          /\ task.state = "opening"
      BY <2>1, NewTurnIs
    <3>2. task.turn.n = 0
      BY <3>1 DEF Begun
    <3> QED
      BY <1>b, <3>1, <3>2, HeedsBegins DEF Silent
  <2>2. CASE Turn
    <3>1. task.state = "idle" /\ ~ Under
      BY <2>2, NewTurnIs DEF Under, InTurn, TURN_STATES
    <3>2. CASE BeginsNew /\ task'.concluding = task.concluding /\ codex'.inbox = codex.inbox
      BY <1>c, <3>1, <3>2, HeedsBegins DEF Silent
    <3>3. CASE task' = task /\ codex' = codex
      BY <3>3, HeedsStands DEF Under, InTurn
    <3> QED
      BY <2>2, <3>2, <3>3, NewTurnIs
  <2>3. CASE Resumed
    <3>1. /\ BeginsNew /\ holder = "turn"
          /\ task'.concluding = task.concluding /\ codex'.inbox = <<>>
      BY <2>3, NewTurnIs
    <3>2. ~ Under
      BY <3>1 DEF Control, Routes, Under, InTurn, TURN_STATES
    <3> QED
      BY <1>c, <3>1, <3>2, HeedsBegins
  <2> QED
    BY <1>1, <2>1, <2>2, <2>3
<1>2. CASE Sends
  <2>1. PICK s \in task.sends : SendAnswered(s) \/ SendFailed(s) \/ SendTimesOut(s)
    BY <1>2 DEF Sends
  <2>2. CASE SendAnswered(s)
    <3>1. /\ Begins(s.n) /\ task'.sends = task.sends \ {s} /\ codex' = codex
      BY <2>2, SendIs
    <3>2. Under' <=> Under
      BY <3>1 DEF Begins, Under, InTurn, TURN_STATES
    <3> QED
      BY <3>1, <3>2, HeedsStands DEF Begins, Number
  <2>3. CASE SendFailed(s)
    <3>1. /\ task.turn.reason = "running" /\ s.n = task.turn.n /\ s.answer # "taken"
          /\ task'.sends = task.sends \ {s} /\ task'.turn.n = task.turn.n
          /\ task'.state = task.state /\ codex'.turn = codex.turn /\ codex'.inbox = codex.inbox
          /\ codex'.starts = codex.starts \ {s.n}
      BY <2>3, SendIs DEF Quiet
    <3>2. Silent' /\ Under'
      BY <1>c, <2>1, <3>1 DEF Silent, Heeds, Under, InTurn
    <3> QED
      BY <3>1, <3>2 DEF Heeds, Silent
  <2>4. CASE SendTimesOut(s)
    BY <1>d, <2>4, EndsAsIs
  <2> QED
    BY <2>1, <2>2, <2>3, <2>4
<1>3. CASE Consumes
  <2>1. Takes
    BY <1>3, ConsumesIs DEF Consumes
  <2>2. Under' <=> Under
    BY <1>3, ConsumesIs DEF Consumes, Begins, Under, InTurn, TURN_STATES, Offered
  <2>3. task'.concluding # {} => task.concluding # {} \/ Message.kind = "completed"
    BY <1>3, ConsumesIs DEF Consumes, Begins
  <2> QED
    BY <2>1, <2>2, <2>3, HeedsTakes
<1>4. CASE StepCap \/ Policies
  <2>1. PICK why \in {"policy_timeout", "update"} : StepCap \/ PolicyFires(why)
    BY <1>4 DEF Policies
  <2> QED
    BY <1>d, <2>1, EndsAsIs
<1>18. CASE PolicyDue
  <2>1. /\ task'.turn.n = task.turn.n /\ Work(task', task) /\ task'.state = task.state
        /\ codex' = codex
    BY <1>18, SimpleIs
  <2> QED
    BY <2>1, HeedsStands DEF Work, Under, InTurn
<1>5. CASE Answer
  <2>1. /\ Number(task', task) /\ Work(task', task) /\ Answering
        /\ task'.state = IF task.ask /\ task.state = "waiting_on_you" THEN "running"
                         ELSE task.state
    BY <1>5, AnswerIs
  <2>2. Under' <=> Under
    BY <2>1 DEF Under, InTurn, TURN_STATES
  <2> QED
    BY <2>1, <2>2, HeedsStands DEF Number, Work, Answering
<1>6. CASE Stop \/ Cancel
  <2>1. Stops /\ Answering
    BY <1>6, StopsIs
  <2>2. Under' <=> Under
    BY <2>1 DEF Stops, Under, InTurn, TURN_STATES
  <2> QED
    BY <2>1, <2>2, HeedsStands DEF Stops, Answering
<1>7. CASE TaskTold
  <2>1. Answering /\ task'.sends = task.sends
    BY <1>7, EndsAsIs
  <2>2. CASE Under
    BY <1>7, <1>d, <2>1, <2>2, EndsAsIs
  <2>3. CASE ~ Under
    <3>1. /\ Number(task', task) /\ task'.state = task.state /\ task'.concluding = task.concluding
      BY <1>7, <2>3, EndsAsIs
    <3> QED
      BY <2>1, <3>1, HeedsStands DEF Number, Answering, Under, InTurn
  <2> QED
    BY <2>2, <2>3
<1>8. CASE Interrupts
  <2>1. PICK n \in Turns : Interrupted(n)
    BY <1>8 DEF Interrupts
  <2> DEFINE m == [kind |-> "completed", n |-> codex.turn, failed |-> TRUE]
  <2>2. /\ task' = task /\ codex.turn # 0 /\ codex'.turn = 0 /\ codex'.starts = codex.starts
        /\ codex'.inbox = Append(codex.inbox, m)
    BY <2>1 DEF Interrupted, Typed, CodexType
  <2> HIDE DEF m
  <2> QED
    BY <2>2, HeedsSays
<1>9. CASE EndSequences
  <2>1. PICK n \in Turns : EndSequence(n)
    BY <1>9 DEF EndSequences
  <2>2. /\ task'.turn.n = task.turn.n /\ task'.state = task.state /\ task'.sends = task.sends
        /\ codex.turn = 0 /\ codex.inbox = <<>> /\ codex'.turn = 0 /\ codex'.inbox = <<>>
        /\ codex'.starts = {}
    BY <2>1 DEF EndSequence, Quiet, Typed, TaskType, CodexType
  <2> QED
    BY <2>2 DEF Heeds, Silent
<1>10. CASE Conclusions \/ FollowOns
  <2>1. PICK c \in task.concluding : Conclude(c) \/ FollowOn(c)
    BY <1>10 DEF Conclusions, FollowOns
  <2>2. task.turn.n \in Turns /\ Silent
    BY <1>0, <1>b, <1>c, <2>1
  <2>3. CASE Conclude(c)
    <3>1. /\ task'.turn.n = task.turn.n /\ task'.sends = task.sends /\ codex' = codex
      BY <2>2, <2>3, EndingIs DEF Concludes
    <3> QED
      BY <2>2, <3>1 DEF Heeds, Silent
  <2>4. CASE FollowOn(c)
    <3>1. task.concluding = {c} /\ lock = "mine"
      BY <2>1 DEF Control, OneEnd, Routes, Working, Under
    <3>2. /\ BeginsNew /\ task'.concluding = {} /\ codex'.inbox = codex.inbox
      BY <2>2, <2>4, <3>1, EndingIs DEF MayTake
    <3> QED
      BY <2>2, <3>2, HeedsBegins DEF Silent
  <2> QED
    BY <2>1, <2>3, <2>4
<1>11. CASE \/ Create \/ OpeningFails \/ ResumeFails \/ SteerWithoutTurn \/ Steer \/ Steered
            \/ ClaimSettle \/ ClaimExpires
  <2>1. /\ Number(task', task) /\ Work(task', task) /\ codex' = codex
        /\ task'.state = task.state
           \/ (task.state \in {"none", "opening"} /\ task'.state \in {"opening", "failed"})
    BY <1>11, SimpleIs DEF Keeps, Number, Work
  <2>2. Under' <=> Under
    BY <2>1 DEF Under, InTurn, TURN_STATES
  <2> QED
    BY <2>1, <2>2, HeedsStands DEF Number, Work
<1>12. CASE \/ StopLeftovers \/ LeftoversStopped \/ RecheckBegins \/ Recheck
            \/ Settles \/ Delete \/ Ended
  <2>1. /\ Number(task', task) /\ task'.sends = task.sends /\ codex' = codex
        /\ task.concluding = {} => task'.concluding = {}
    BY <1>12, SettlingIs DEF Number, Work
  <2>2. /\ task.state \in SETTLE_STATES \cup {"leftover", "idle"}
        /\ task'.state \in SETTLE_STATES \cup {"leftover", "idle", "ended"}
    BY <1>0, <1>12, SettlingIs DEF Control, Routes, NeedsSettle, SETTLE_STATES
  <2>3. ~ Under /\ ~ Under'
    BY <2>2 DEF Under, InTurn, TURN_STATES, SETTLE_STATES
  <2> QED
    BY <1>c, <2>1, <2>3, HeedsStands DEF Number
<1>13. CASE \E n \in Turns : CodexTakes(n)
  <2>1. PICK n \in Turns : CodexTakes(n)
    BY <1>13
  <2> DEFINE m == [kind |-> "started", n |-> n, failed |-> FALSE]
  <2>2. /\ Number(task', task) /\ task'.state = task.state
        /\ task'.concluding = task.concluding
        /\ task'.sends = {IF s.n = n THEN [s EXCEPT !.answer = "taken"] ELSE s : s \in task.sends}
        /\ n \in codex.starts /\ codex'.turn = n /\ codex'.starts = codex.starts \ {n}
        /\ codex'.inbox = Append(codex.inbox, m)
    BY <2>1 DEF CodexTakes, Number, Typed, TaskType, CodexType
  <2>3. n = task.turn.n /\ codex.inbox = <<>> /\ codex'.starts = {} /\ Under /\ task.concluding = {}
    BY <2>2 DEF Heeds, Silent
  <2>4. DOMAIN codex'.inbox = {1} /\ codex'.inbox[1] = m
    BY <2>2, <2>3
  <2>5. m.kind # "completed"
    OBVIOUS
  <2>6. \A s \in task'.sends : s.n <= task.turn.n /\ (s.n = task.turn.n => s.answer = "taken")
    <3>1. SUFFICES ASSUME NEW s \in task.sends,
                          NEW t, t = IF s.n = n THEN [s EXCEPT !.answer = "taken"] ELSE s
                   PROVE  t.n <= task.turn.n /\ (t.n = task.turn.n => t.answer = "taken")
      BY <2>2
    <3>2. s.n <= task.turn.n /\ s \in SendType
      BY <1>0 DEF Heeds
    <3> QED
      BY <2>3, <3>1, <3>2 DEF SendType
  <2>7. Under' /\ task'.concluding = {}
    BY <2>2, <2>3 DEF Under, InTurn
  <2> HIDE DEF m
  <2> QED
    BY <2>2, <2>3, <2>4, <2>5, <2>6, <2>7 DEF Heeds, Number
<1>14. CASE CodexAsks \/ \E failed \in BOOLEAN : CodexCompletes(failed)
  <2>1. CASE CodexAsks
    <3> DEFINE m == [kind |-> "asks", n |-> codex.turn, failed |-> FALSE]
    <3>1. /\ task' = task /\ codex.turn # 0 /\ codex'.turn = codex.turn
          /\ codex'.starts = codex.starts /\ codex'.inbox = Append(codex.inbox, m)
          /\ m.kind # "completed"
      BY <2>1 DEF CodexAsks, Typed, CodexType
    <3> HIDE DEF m
    <3> QED
      BY <3>1, HeedsSays
  <2>2. ASSUME NEW failed \in BOOLEAN, CodexCompletes(failed) PROVE Heeds'
    <3> DEFINE m == [kind |-> "completed", n |-> codex.turn, failed |-> failed]
    <3>1. /\ task' = task /\ codex.turn # 0 /\ codex'.turn = 0
          /\ codex'.starts = codex.starts /\ codex'.inbox = Append(codex.inbox, m)
      BY <2>2 DEF CodexCompletes, Typed, CodexType
    <3> HIDE DEF m
    <3> QED
      BY <3>1, HeedsSays
  <2> QED
    BY <1>14, <2>1, <2>2
<1>15. CASE \/ \E p \in Procs : CommandStarts(p) \/ CommandEnds(p) \/ CommandStrays(p)
            \/ Sample \/ CodexStarts \/ OthersLock
  <2>1. /\ task' = task /\ codex'.turn = codex.turn /\ codex'.starts = codex.starts
        /\ codex'.inbox = codex.inbox
    BY <1>15 DEF CommandStarts, CommandEnds, CommandStrays, Sample, CodexStarts, OthersLock,
                 outside, Typed, CodexType
  <2> QED
    BY <2>1, HeedsStands DEF Under, InTurn
<1>16. CASE CodexEnds
  <2>1. /\ Number(task', task) /\ task'.state = task.state
        /\ task'.concluding = task.concluding
        /\ task'.sends = {IF s.answer = "none" THEN [s EXCEPT !.answer = "gone"] ELSE s
                            : s \in task.sends}
        /\ codex'.turn = 0 /\ codex'.starts = {} /\ codex'.inbox = codex.inbox
    BY <1>16 DEF CodexEnds, Number, Typed, TaskType, CodexType
  <2>2. \A s \in task'.sends : s.n <= task.turn.n /\
          (s.n = task.turn.n /\ s.answer # "taken" => codex.inbox = <<>>)
    <3>1. SUFFICES ASSUME NEW s \in task.sends,
                          NEW t, t = IF s.answer = "none" THEN [s EXCEPT !.answer = "gone"] ELSE s
                   PROVE  t.n <= task.turn.n /\
                          (t.n = task.turn.n /\ t.answer # "taken" => codex.inbox = <<>>)
      BY <2>1
    <3>2. s.n <= task.turn.n /\ s \in SendType
          /\ (s.n = task.turn.n /\ s.answer # "taken" => codex.inbox = <<>>)
      BY <1>0 DEF Heeds
    <3>3. t.n = s.n /\ (t.answer # "taken" => s.answer # "taken")
      BY <3>1, <3>2 DEF SendType
    <3> QED
      BY <3>2, <3>3
  <2>3. Under' <=> Under
    BY <2>1 DEF Under, InTurn
  <2> QED
    BY <2>1, <2>2, <2>3 DEF Heeds, Silent, Number
<1>17. CASE Restart
  <2>1. Restarted
    BY <1>17, RestartIs
  <2>2. Silent' /\ task'.sends = {}
    BY <2>1 DEF Restarted, Silent
  <2> QED
    BY <2>2 DEF Heeds, Silent
<1> QED
  BY <1>1, <1>2, <1>3, <1>4, <1>5, <1>6, <1>7, <1>8, <1>9, <1>10, <1>11, <1>12, <1>13, <1>14,
     <1>15, <1>16, <1>17, <1>18 DEF Next

-----------------------------------------------------------------------------
(* What a clean-up found, when ps answers.                                *)

\* What runs and is not of named slipped from the looks; and none of it is on record, unless a
\* look may find what earlier ones missed.
But(named) == /\ procs \subseteq astray \cup named
              /\ "found" \in faults \/ procs \cap recorded \subseteq named

Gone ==
  /\ task.state = "leftover" => But(task.leftover)
  /\ NeedsSettle /\ task.confirmed => But({})
  /\ \A c \in task.concluding : c.at = "follow" => But({}) /\ task.confirmed

Unmoved == procs' = procs /\ recorded' = recorded /\ astray' = astray

\* A step that leaves what is known of the commands.
LEMMA GoneStands ==
  ASSUME Gone, \A named : But(named) => But(named)', task'.confirmed = task.confirmed,
         task'.state \in SETTLE_STATES \cup {"leftover"} => task'.state = task.state,
         task'.state = "leftover" => task'.leftover = task.leftover,
         \A c \in task'.concluding : c.at = "follow" => c \in task.concluding
  PROVE  Gone'
<1> USE DEF NeedsSettle
<1>1. task'.state = "leftover" => But(task.leftover)'
  <2> SUFFICES ASSUME task'.state = "leftover" PROVE But(task.leftover)'
    OBVIOUS
  <2>1. PICK named : named = task.leftover
    OBVIOUS
  <2>2. But(named)
    BY <2>1 DEF Gone
  <2>3. But(named)' /\ named = task'.leftover
    BY <2>1, <2>2
  <2> QED
    BY <2>3 DEF But
<1>2. task'.state \in SETTLE_STATES /\ task'.confirmed => But({})'
  BY DEF Gone
<1>3. \A c \in task'.concluding : c.at = "follow" => But({})' /\ task'.confirmed
  BY DEF Gone
<1> QED
  BY <1>1, <1>2, <1>3 DEF Gone, But

\* A clean-up whose ps answers leaves what it names, and what no look need find.
LEMMA CleanupsSee ==
  ASSUME "blind" \notin faults, faults' = faults, procs \subseteq Procs, NEW also,
         also \subseteq Procs, NEW found \in Cleanups(also), Cleaned(found)
  PROVE  /\ procs' \subseteq astray' \cup found.named
         /\ procs' \cap recorded' \subseteq found.named
         /\ found.gone => found.named = {}
<1>1. /\ found.named \subseteq found.seen /\ (found.gone => found.named = {})
      /\ procs \ ((astray \ recorded) \ also) \subseteq found.seen
  BY CleanupIs DEF Found, CannotMiss
<1>2. /\ procs' = procs \ (found.seen \ found.named)
      /\ recorded' = (recorded \ found.seen) \cup (found.seen \cap found.named)
      /\ astray' = astray \cap procs'
  BY DEF Cleaned
<1> QED
  BY <1>1, <1>2

LEMMA GoneStep ==
  ASSUME TaskAssumption, Typed, Begun, Control, Heeds, Gone, Quiet,
         "deaf" \notin faults, "blind" \notin faults, Next
  PROVE  Gone'
<1>0. /\ task.turn.n \in Nat /\ task.state \in States /\ task.after \in SETTLE_STATES
      /\ FINAL_STATE[task.turn.reason] \in SETTLE_STATES
      /\ task.concluding \subseteq ConclusionType
      /\ task.turn.n # 0 => task.turn.n \in Turns /\ task.turn.n <= MaxTurns
  BY FieldTypes
<1>a. \A s \in SETTLE_STATES \cup {"leftover"} : s \notin {"starting", "running", "waiting_on_you",
                                                          "stopping", "opening", "failed"}
  BY DEF SETTLE_STATES
<1>b. task.turn.n = 0 => ~ Under /\ task.concluding = {}
  BY DEF Begun
<1>c. ~ Under => task.concluding = {}
  BY DEF Control, OneEnd
\* Most steps leave the processes and what is known of them.
<1>d. ASSUME Unmoved, Outcome(task', task),
             task'.state = task.state
               \/ task'.state \in {"starting", "running", "waiting_on_you", "stopping", "opening", "failed"},
             \A c \in task'.concluding : c.at = "follow" => c \in task.concluding
      PROVE  Gone'
  <2>1. \A named : But(named) => But(named)'
    BY <1>d, OthersStand DEF But, Unmoved
  <2> QED
    BY <1>a, <1>d, <2>1, GoneStands DEF Outcome
<1>e. ASSUME NEW why, EndsAs(why), Unmoved PROVE Gone'
  BY <1>d, <1>e DEF EndsAs
<1>f. ASSUME NEW n, Begins(n), Unmoved PROVE Gone'
  <2>1. task'.state \in SETTLE_STATES \cup {"leftover"} => task'.state = task.state
    BY <1>a, <1>f DEF Begins
  <2>2. \A named : But(named) => But(named)'
    BY <1>f, OthersStand DEF But, Unmoved
  <2> QED
    BY <1>a, <1>f, <2>1, <2>2, GoneStands DEF Begins
<1>g. ASSUME BeginsNew, task'.concluding = {} PROVE Gone'
  BY <1>g DEF BeginsNew, Gone, NeedsSettle, SETTLE_STATES
<1>1. CASE Opened \/ Turn \/ Resumed
  <2>1. ~ Under /\ task.concluding = {}
    BY <1>1, <1>c, NewTurnIs DEF Control, Routes, Under, InTurn, TURN_STATES
  <2>2. \/ BeginsNew /\ task'.concluding = {}
        \/ task' = task
    BY <1>1, <2>1, NewTurnIs
  <2>3. Unmoved
    BY <1>1 DEF Opened, Turn, Resumed, Unmoved
  <2> QED
    BY <1>d, <1>g, <2>2, <2>3 DEF Outcome
<1>2. CASE Sends
  <2>1. PICK s \in task.sends : SendAnswered(s) \/ SendFailed(s) \/ SendTimesOut(s)
    BY <1>2 DEF Sends
  <2>2. Unmoved
    BY <2>1 DEF SendAnswered, SendFailed, SendTimesOut, outside, Unmoved
  <2>3. CASE SendAnswered(s)
    BY <1>f, <2>2, <2>3, SendIs
  <2>4. CASE SendFailed(s)
    <3> DEFINE c == [by |-> "send", n |-> s.n, at |-> "cleanup"]
    <3>1. /\ Outcome(task', task) /\ task'.state = task.state
          /\ task'.concluding = task.concluding \cup {c} /\ c.at = "cleanup"
      BY <2>4, SendIs
    <3> HIDE DEF c
    <3> QED
      BY <1>d, <2>2, <3>1
  <2>5. CASE SendTimesOut(s)
    BY <1>e, <2>2, <2>5, EndsAsIs
  <2> QED
    BY <2>1, <2>3, <2>4, <2>5
<1>3. CASE Consumes
  <2>1. Unmoved
    BY <1>3 DEF Consumes, TurnStarted, TurnCompleted, CodexRequest, Unmoved
  <2>2. CASE TurnStarted
    BY <1>f, <2>1, <2>2, ConsumesIs
  <2>3. CASE TurnCompleted
    <3> DEFINE c == [by |-> "consumer", n |-> task.turn.n, at |-> "cleanup"]
    <3>1. /\ Outcome(task', task) /\ task'.state \in {task.state, "running"}
          /\ task'.concluding \subseteq task.concluding \cup {c} /\ c.at = "cleanup"
      BY <2>3, ConsumesIs
    <3> HIDE DEF c
    <3> QED
      BY <1>d, <2>1, <3>1
  <2>4. CASE CodexRequest
    <3>1. /\ Outcome(task', task) /\ task'.state \in {task.state, "waiting_on_you"}
          /\ task'.concluding = task.concluding
      BY <2>4, ConsumesIs
    <3> QED
      BY <1>d, <2>1, <3>1
  <2> QED
    BY <1>3, <2>2, <2>3, <2>4 DEF Consumes
<1>4. CASE StepCap \/ Policies
  <2>1. PICK why \in {"policy_timeout", "update"} : StepCap \/ PolicyFires(why)
    BY <1>4 DEF Policies
  <2>2. Unmoved
    BY <2>1 DEF StepCap, PolicyFires, Unmoved
  <2> QED
    BY <1>e, <2>1, <2>2, EndsAsIs
<1>20. CASE PolicyDue \/ Sample
  <2>1. /\ Outcome(task', task) /\ task'.state = task.state /\ task'.concluding = task.concluding
    BY <1>20, SimpleIs DEF Work, Outcome
  <2>2. CASE PolicyDue
    BY <1>d, <2>1, <2>2 DEF PolicyDue, outside, Unmoved
  <2>3. CASE Sample
    <3>1. PICK found \in Found({}) : recorded' = recorded \cup found
      BY <2>3 DEF Sample
    <3>2. procs' = procs /\ astray' = astray /\ faults' = faults /\ task' = task
      BY <2>3 DEF Sample
    <3>3. task.state \notin SETTLE_STATES \cup {"leftover"}
      BY <1>a, <2>3 DEF Sample, InTurn, TURN_STATES
    <3>4. But({}) => But({})'
      <4>1. CASE "found" \in faults
        BY <3>2, <4>1 DEF But
      <4>2. CASE "found" \notin faults
        BY <3>1, <3>2, <4>2 DEF But, Found, CannotMiss
      <4> QED
        BY <4>1, <4>2
    <3> QED
      BY <3>2, <3>3, <3>4 DEF Gone, NeedsSettle
  <2> QED
    BY <1>20, <2>2, <2>3
<1>5. CASE Answer
  <2>1. Unmoved
    BY <1>5 DEF Answer, Unmoved
  <2> QED
    BY <1>5, <1>d, <2>1, AnswerIs DEF Work
<1>6. CASE Stop \/ Cancel
  <2>1. Unmoved
    BY <1>6 DEF Stop, Cancel, Unmoved
  <2> QED
    BY <1>6, <1>d, <2>1, StopsIs DEF Stops
<1>7. CASE TaskTold
  <2>1. Unmoved
    BY <1>7 DEF TaskTold, Unmoved
  <2>2. CASE Under
    BY <1>7, <1>e, <2>1, <2>2, EndsAsIs
  <2>3. CASE ~ Under
    BY <1>7, <1>d, <2>1, <2>3, EndsAsIs
  <2> QED
    BY <2>2, <2>3
<1>8. CASE Interrupts
  <2>1. task' = task /\ Unmoved
    BY <1>8 DEF Interrupts, Interrupted, Unmoved
  <2> QED
    BY <1>d, <2>1 DEF Outcome
<1>9. CASE EndSequences
  <2>1. PICK n \in Turns : EndSequence(n)
    BY <1>9 DEF EndSequences
  <2> DEFINE c == [by |-> "sequence", n |-> n, at |-> "cleanup"]
  <2>2. /\ Outcome(task', task) /\ task'.state = task.state /\ Unmoved
        /\ task'.concluding = task.concluding \cup {c} /\ c.at = "cleanup"
    BY <2>1 DEF EndSequence, Outcome, Typed, TaskType, Unmoved
  <2> HIDE DEF c
  <2> QED
    BY <1>d, <2>2
<1>10. CASE Conclusions \/ FollowOns
  <2>1. PICK c \in task.concluding : Conclude(c) \/ FollowOn(c)
    BY <1>10 DEF Conclusions, FollowOns
  <2>2. task.turn.n \in Turns /\ task.concluding = {c} /\ Under
    BY <1>0, <1>b, <2>1 DEF Control, OneEnd
  <2>3. CASE Conclude(c)
    <3>1. Concludes(c)
      BY <2>2, <2>3, EndingIs
    <3>2. PICK found \in Cleanups({}) :
            /\ Cleaned(found) /\ task'.confirmed = found.gone /\ task'.leftover = found.named
            /\ \/ /\ ~ found.gone /\ task'.state = "leftover" /\ task'.concluding = {}
               \/ found.gone /\ task'.state = task.state
               \/ found.gone /\ task'.state = FINAL_STATE[task.turn.reason]
      BY <2>2, <3>1 DEF Concludes
    <3>3. /\ procs' \subseteq astray' \cup found.named
          /\ procs' \cap recorded' \subseteq found.named
          /\ found.gone => found.named = {}
      BY <3>2, CleanupsSee, OthersStand DEF Typed
    <3>4. CASE found.gone
      <4>1. But({})' /\ task'.confirmed /\ task'.state # "leftover"
        BY <1>0, <1>a, <2>2, <3>2, <3>3, <3>4 DEF But, Under, InTurn, TURN_STATES, SETTLE_STATES
      <4> QED
        BY <4>1 DEF Gone, But
    <3>5. CASE ~ found.gone
      <4>1. task'.state = "leftover" /\ task'.concluding = {} /\ But(task.leftover)'
        BY <3>2, <3>3, <3>5 DEF But
      <4> QED
        BY <4>1 DEF Gone, But, NeedsSettle, SETTLE_STATES
    <3> QED
      BY <3>4, <3>5
  <2>4. CASE FollowOn(c)
    <3>1. lock = "mine"
      BY <2>2 DEF Control, Routes, Working, Under
    <3>2. BeginsNew /\ task'.concluding = {}
      BY <2>2, <2>4, <3>1, EndingIs DEF MayTake
    <3> QED
      BY <1>g, <3>2
  <2> QED
    BY <2>1, <2>3, <2>4
<1>11. CASE \/ Create \/ OpeningFails \/ ResumeFails \/ SteerWithoutTurn \/ Steer \/ Steered
            \/ ClaimSettle \/ ClaimExpires
  <2>1. Unmoved
    BY <1>11 DEF Create, OpeningFails, ResumeFails, SteerWithoutTurn, Steer, Steered,
                 ClaimSettle, ClaimExpires, outside, Unmoved
  <2>2. /\ Outcome(task', task) /\ task'.concluding = task.concluding
        /\ task'.state \in {task.state, "opening", "failed"}
    BY <1>11, SimpleIs DEF Keeps, Work, Outcome
  <2> QED
    BY <1>d, <2>1, <2>2
<1>12. CASE LeftoversStopped
  <2>1. /\ task.state \in SETTLE_STATES \cup {"leftover"} /\ Work(task', task)
    BY <1>12, SettlingIs DEF Control, Routes
  <2>2. PICK found \in Cleanups(task.leftover) :
          /\ Cleaned(found) /\ task'.confirmed = found.gone
          /\ task'.leftover = found.named
          /\ task'.state = IF found.gone THEN task.after ELSE task.state
    BY <1>12, SettlingIs
  <2>3. /\ procs' \subseteq astray' \cup found.named
        /\ procs' \cap recorded' \subseteq found.named
        /\ found.gone => found.named = {}
    BY <2>2, CleanupsSee, OthersStand DEF Typed, TaskType
  <2>4. task'.concluding = {}
    BY <1>c, <2>1 DEF Work, Under, InTurn, TURN_STATES, SETTLE_STATES
  <2>5. CASE found.gone
    <3>1. But({})' /\ task'.state # "leftover"
      BY <1>0, <1>a, <2>2, <2>3, <2>5, SettlingIs DEF But, SETTLE_STATES
    <3> QED
      BY <2>4, <3>1 DEF Gone, But
  <2>6. CASE ~ found.gone
    <3>1. But(task.leftover)' /\ ~ task'.confirmed
      BY <2>2, <2>3, <2>6 DEF But
    <3> QED
      BY <2>4, <3>1 DEF Gone, But
  <2> QED
    BY <2>5, <2>6
<1>13. CASE Recheck
  <2>1. /\ task.state = "leftover" /\ Work(task', task)
        /\ \/ task'.state = task.state /\ Outcome(task', task)
           \/ /\ task'.state = task.after /\ task'.confirmed /\ task'.leftover = {}
              /\ {} \in StillAlive(task.leftover)
    BY <1>13, SettlingIs DEF Control, Routes, Quiet
  <2>2. task'.concluding = {}
    BY <1>c, <2>1 DEF Work, Under, InTurn, TURN_STATES
  <2>3. Unmoved /\ faults' = faults
    BY <1>13 DEF Recheck, outside, Unmoved
  <2>4. CASE task'.state = task.state /\ Outcome(task', task)
    BY <1>d, <2>1, <2>3, <2>4 DEF Work
  <2>5. CASE task'.state = task.after /\ {} \in StillAlive(task.leftover)
    <3>1. task.leftover \cap procs = {}
      BY <2>5 DEF StillAlive
    <3>2. But({})
      BY <2>1, <3>1 DEF Gone, But
    <3>3. But({})' /\ task'.state # "leftover"
      BY <1>0, <2>3, <2>5, <3>2 DEF But, Unmoved, SETTLE_STATES
    <3> QED
      BY <2>2, <3>3 DEF Gone, But
  <2> QED
    BY <2>1, <2>4, <2>5
<1>14. CASE StopLeftovers \/ RecheckBegins \/ Delete
  <2>1. Unmoved /\ Outcome(task', task) /\ task'.state = task.state /\ Work(task', task)
    BY <1>14, SettlingIs DEF Outcome, Work, Unmoved, StopLeftovers, RecheckBegins, Delete, outside
  <2> QED
    BY <1>d, <2>1 DEF Work
<1>15. CASE Settles \/ Ended
  <2>1. /\ task.state \in SETTLE_STATES \cup {"idle"}
        /\ task'.confirmed = task.confirmed \/ task'.state = "ended"
        /\ task'.concluding \subseteq task.concluding
        /\ task'.state \in {task.state, "idle", "ended"}
    BY <1>15, SettlingIs DEF Control, Routes, NeedsSettle, Work
  <2>2. task'.concluding = {} /\ task.state # "leftover"
    BY <1>c, <2>1 DEF Under, InTurn, TURN_STATES, SETTLE_STATES
  <2>3. Unmoved /\ faults' = faults
    BY <1>15 DEF Settles, Settle, Ended, outside, Unmoved
  <2>4. But({}) => But({})'
    BY <2>3 DEF But, Unmoved
  <2> QED
    BY <1>a, <2>1, <2>2, <2>4 DEF Gone, NeedsSettle, SETTLE_STATES
<1>16. CASE (\E n \in Turns : CodexTakes(n)) \/ CodexEnds
  <2>1. Unmoved /\ Outcome(task', task) /\ task'.state = task.state
        /\ task'.concluding = task.concluding
    <3>1. PICK x : task' = [task EXCEPT !.sends = x] /\ Unmoved
      BY <1>16 DEF CodexTakes, CodexEnds, Unmoved
    <3>2. task \in TaskType
      BY DEF Typed
    <3> QED
      BY <3>1, <3>2 DEF Outcome, TaskType
  <2> QED
    BY <1>d, <2>1
<1>17. CASE CodexAsks \/ (\E failed \in BOOLEAN : CodexCompletes(failed)) \/ CodexStarts \/ OthersLock
  <2>1. Unmoved /\ task' = task
    BY <1>17 DEF CodexAsks, CodexCompletes, CodexStarts, OthersLock, outside, Unmoved
  <2> QED
    BY <1>d, <2>1 DEF Outcome
<1>18. CASE \E p \in Procs : CommandStarts(p) \/ CommandEnds(p) \/ CommandStrays(p)
  <2>1. PICK p \in Procs : CommandStarts(p) \/ CommandEnds(p) \/ CommandStrays(p)
    BY <1>18
  <2>2. CASE CommandStarts(p)
    <3>1. task' = task /\ codex.turn # 0
      BY <2>2 DEF CommandStarts
    <3>2. Under /\ task.concluding = {}
      BY <3>1 DEF Heeds, Silent
    <3> QED
      BY <3>1, <3>2 DEF Gone, NeedsSettle, Under, InTurn, TURN_STATES, SETTLE_STATES
  <2>3. CASE CommandEnds(p) \/ CommandStrays(p)
    <3>1. task' = task /\ \A named : But(named) => But(named)'
      BY <2>3 DEF CommandEnds, CommandStrays, But
    <3> QED
      BY <3>1, GoneStands
  <2> QED
    BY <2>1, <2>2, <2>3
<1>19. CASE Restart
  <2>1. Restarted
    BY <1>19, RestartIs
  <2>2. CASE task'.state = "idle"
    BY <2>1, <2>2 DEF Restarted, Gone, NeedsSettle, SETTLE_STATES
  <2>3. ASSUME NEW found \in RecordedCleanups(procs \cap recorded),
               procs' = (procs \ recorded) \cup found.left, recorded' = found.kept,
               task'.confirmed = found.gone, task'.leftover = found.named,
               ~ found.gone => task'.state = "leftover"
        PROVE  Gone'
    <3>1. PICK left \in SUBSET (procs \cap recorded) :
            found = [gone |-> left = {}, named |-> left, left |-> left, kept |-> left]
      BY DEF RecordedCleanups
    <3>2. found.named = left /\ found.kept = left /\ (found.gone => left = {})
      BY <3>1
    <3>3. task'.concluding = {} /\ astray' = procs'
      BY <2>1 DEF Restarted
    <3>4. But(task.leftover)'
      BY <2>3, <3>2, <3>3 DEF But
    <3>5. task'.confirmed => But({})'
      BY <2>3, <3>2, <3>3 DEF But
    <3> QED
      BY <3>3, <3>4, <3>5 DEF Gone, But
  <2> QED
    BY <2>1, <2>2, <2>3 DEF Restarted
<1> QED
  BY <1>1, <1>2, <1>3, <1>4, <1>5, <1>6, <1>7, <1>8, <1>9, <1>10, <1>11, <1>12, <1>13, <1>14,
     <1>15, <1>16, <1>17, <1>18, <1>19, <1>20 DEF Next

-----------------------------------------------------------------------------
(* What Codex asks.                                                       *)

AsksOpen == task.ask \/ \E i \in DOMAIN codex.inbox : codex.inbox[i].kind = "asks"

\* Codex asks only while it runs a turn of a thread it has; what it asks is open to the
\* windows or still to be handled.
Asks ==
  /\ ~ codex.up => codex.turn = 0 /\ ~ codex.asking /\ codex.starts = {}
  /\ ~ codex.told => ~ codex.up
  /\ holder = "turn" => ~ task.loaded
  /\ ~ task.loaded /\ task.state \notin OVER => codex.turn = 0 /\ ~ codex.asking
  /\ codex.asking => AsksOpen

LEMMA AsksStands ==
  ASSUME Asks, codex'.up = codex.up, codex'.told = codex.told \/ codex'.told,
         codex'.turn \in {0, codex.turn}, codex'.asking => codex.asking,
         codex'.starts \subseteq codex.starts, task'.loaded = task.loaded,
         task.state \in OVER => task'.state \in OVER, holder' = "turn" => holder = "turn",
         codex'.asking /\ AsksOpen => AsksOpen'
  PROVE  Asks'
BY DEF Asks

LEMMA AsksBegins ==
  ASSUME Asks, BeginsNew, task'.loaded, holder' # "turn", codex'.inbox = codex.inbox \/ ~ codex.asking,
         codex.up \/ codex'.starts = codex.starts
  PROVE  Asks'
<1>1. codex'.asking => AsksOpen'
  BY DEF Asks, AsksOpen, BeginsNew
<1> QED
  BY <1>1 DEF Asks, BeginsNew

\* What is taken from the inbox is not what was asked, or it is open now or was declined.
LEMMA AsksTakes ==
  ASSUME TaskAssumption, Typed, Asks, Takes, task'.state \notin OVER,
         codex'.asking => codex.asking /\ (task'.ask \/ (~ task.ask /\ Message.kind # "asks"))
  PROVE  Asks'
<1>1. codex.inbox \in Seq(MessageType) /\ codex.inbox # <<>> /\ codex'.inbox = Tail(codex.inbox)
  BY FieldTypes DEF Takes
<1> DEFINE q == Tail(codex.inbox)
<1>2. /\ Len(q) = Len(codex.inbox) - 1 /\ Len(codex.inbox) \in Nat /\ Len(codex.inbox) # 0
      /\ \A i \in 1 .. Len(q) : q[i] = codex.inbox[i + 1]
      /\ DOMAIN q = 1 .. Len(q) /\ DOMAIN codex.inbox = 1 .. Len(codex.inbox)
  BY <1>1
<1>3. ASSUME codex'.asking PROVE AsksOpen'
  <2>1. CASE task'.ask
    BY <2>1 DEF AsksOpen
  <2>2. CASE ~ task.ask /\ Message.kind # "asks"
    <3>1. PICK i \in DOMAIN codex.inbox : codex.inbox[i].kind = "asks"
      BY <1>3, <2>2 DEF Asks, AsksOpen
    <3>2. i # 1
      BY <1>1, <2>2, <3>1 DEF Message
    <3> HIDE DEF q
    <3>3. i - 1 \in 1 .. Len(q) /\ q[i - 1] = codex.inbox[i]
      BY <1>2, <3>1, <3>2
    <3>4. i - 1 \in DOMAIN q /\ q[i - 1].kind = "asks"
      BY <1>2, <3>1, <3>3
    <3> QED
      BY <1>1, <3>4 DEF AsksOpen, q
  <2> QED
    BY <1>3, <2>1, <2>2
<1>4. /\ codex'.up = codex.up /\ codex'.told = codex.told /\ codex'.turn = codex.turn
      /\ codex'.starts = codex.starts /\ task'.loaded = task.loaded /\ task.state \notin OVER
      /\ holder' = holder
  BY DEF Takes, Rest
<1> QED
  BY <1>3, <1>4 DEF Asks

\* A message more.
LEMMA AsksSays ==
  ASSUME TaskAssumption, Typed, NEW m, codex'.inbox = Append(codex.inbox, m)
  PROVE  /\ m.kind = "asks" => AsksOpen'
         /\ AsksOpen /\ task'.ask = task.ask => AsksOpen'
<1>1. codex.inbox \in Seq(MessageType)
  BY FieldTypes
<1> DEFINE q == Append(codex.inbox, m)
<1>2. /\ q[Len(codex.inbox) + 1] = m /\ Len(codex.inbox) + 1 \in DOMAIN q
      /\ \A i \in DOMAIN codex.inbox : i \in DOMAIN q /\ q[i] = codex.inbox[i]
  BY <1>1
<1> HIDE DEF q
<1>3. codex'.inbox = q
  BY DEF q
<1> QED
  BY <1>2, <1>3 DEF AsksOpen

LEMMA AsksStep ==
  ASSUME TaskAssumption, Typed, Begun, Control, Asks, Stands, Quiet, Next
  PROVE  Asks'
<1>0. /\ task.turn.n \in Nat /\ task.state \in States /\ task.after \in SETTLE_STATES
      /\ FINAL_STATE[task.turn.reason] \in SETTLE_STATES
      /\ task.turn.n # 0 => task.turn.n \in Turns /\ task.turn.n <= MaxTurns
  BY FieldTypes
<1>b. task.turn.n = 0 => /\ ~ Under /\ task.concluding = {} /\ task.ending = {}
                        /\ codex.turn = 0 /\ codex.starts = {} /\ task.sends = {}
  BY DEF Begun
<1>s. task.state \in OVER => task'.state \in OVER
  BY DEF Stands
\* The steps that leave Codex alone, and those that answer it.
<1>d. ASSUME codex' = codex, task'.loaded = task.loaded, task'.ask = task.ask,
             holder' = "turn" => holder = "turn"
      PROVE  Asks'
  <2>1. AsksOpen => AsksOpen'
    BY <1>d DEF AsksOpen
  <2> QED
    BY <1>d, <1>s, <2>1, AsksStands
<1>e. ASSUME Answering, task'.loaded = task.loaded, codex'.told = codex.told,
             holder' = "turn" => holder = "turn"
      PROVE  Asks'
  <2>1. codex'.asking /\ AsksOpen => AsksOpen'
    BY <1>e DEF AsksOpen, Answering
  <2> QED
    BY <1>e, <1>s, <2>1, AsksStands DEF Answering
<1>1. CASE Opened \/ Turn \/ Resumed
  <2>1. CASE Opened
    <3>1. /\ BeginsNew /\ task'.loaded /\ holder' = holder /\ codex'.inbox = codex.inbox
          /\ codex.up /\ task.state = "opening"
      BY <2>1, NewTurnIs
    <3>2. holder = "nobody"
      BY <3>1 DEF Begun
    <3> QED
      BY <3>1, <3>2, AsksBegins
  <2>2. CASE Turn
    <3>1. CASE /\ BeginsNew /\ task'.loaded /\ holder' = holder /\ codex'.inbox = codex.inbox
      BY <2>2, <3>1, NewTurnIs, AsksBegins DEF Free
    <3>2. CASE task' = task /\ codex' = codex /\ ~ task.loaded
      BY <3>2 DEF Asks, AsksOpen
    <3> QED
      BY <2>2, <3>1, <3>2, NewTurnIs
  <2>3. CASE Resumed
    <3>1. /\ BeginsNew /\ task'.loaded /\ holder' = "nobody" /\ holder = "turn" /\ codex.up
      BY <2>3, NewTurnIs
    <3>2. ~ codex.asking
      BY <3>1 DEF Asks, Control, Routes, OVER
    <3> QED
      BY <3>1, <3>2, AsksBegins
  <2> QED
    BY <1>1, <2>1, <2>2, <2>3
<1>2. CASE Sends
  <2>1. PICK s \in task.sends : SendAnswered(s) \/ SendFailed(s) \/ SendTimesOut(s)
    BY <1>2 DEF Sends
  <2>2. CASE SendAnswered(s)
    BY <1>d, <2>2, SendIs DEF Begins, Rest
  <2>3. CASE SendFailed(s)
    <3>1. /\ codex'.up = codex.up /\ codex'.told = codex.told /\ codex'.turn = codex.turn
          /\ codex'.asking = codex.asking /\ codex'.inbox = codex.inbox
          /\ codex'.starts = codex.starts \ {s.n} /\ task'.ask = task.ask
          /\ task'.loaded = task.loaded /\ holder' = holder
      BY <2>3, SendIs DEF Rest
    <3>2. AsksOpen => AsksOpen'
      BY <3>1 DEF AsksOpen
    <3> QED
      BY <1>s, <3>1, <3>2, AsksStands
  <2>4. CASE SendTimesOut(s)
    BY <1>e, <2>4, EndsAsIs
  <2> QED
    BY <2>1, <2>2, <2>3, <2>4
<1>3. CASE Consumes
  <2>1. Takes
    BY <1>3, ConsumesIs DEF Consumes
  <2>2. task'.state \notin OVER
    BY <1>3, <2>1, ConsumesIs DEF Takes, Consumes, Begins, OVER
  <2>3. codex'.asking => codex.asking /\ (task'.ask \/ (~ task.ask /\ Message.kind # "asks"))
    <3>1. CASE TurnStarted
      BY <3>1, ConsumesIs DEF Begins
    <3>2. CASE TurnCompleted
      BY <3>2, ConsumesIs
    <3>3. CASE CodexRequest
      BY <3>3, ConsumesIs
    <3> QED
      BY <1>3, <3>1, <3>2, <3>3 DEF Consumes
  <2> QED
    BY <2>1, <2>2, <2>3, AsksTakes
<1>4. CASE StepCap \/ Policies
  <2>1. PICK why \in {"policy_timeout", "update"} : StepCap \/ PolicyFires(why)
    BY <1>4 DEF Policies
  <2> QED
    BY <1>e, <2>1, EndsAsIs
<1>20. CASE PolicyDue
  BY <1>d, <1>20, SimpleIs DEF Rest
<1>5. CASE Answer
  BY <1>e, <1>5, AnswerIs DEF Rest
<1>6. CASE Stop \/ Cancel
  BY <1>e, <1>6, StopsIs DEF Stops, Rest
<1>7. CASE TaskTold
  <2>1. /\ Answering /\ codex'.told /\ ~ task'.loaded /\ holder' = holder /\ ~ codex.told
    BY <1>7, EndsAsIs
  <2>2. ~ codex.up /\ codex.turn = 0 /\ ~ codex.asking /\ codex.starts = {}
    BY <2>1 DEF Asks
  <2> QED
    BY <2>1, <2>2 DEF Asks, Answering
<1>8. CASE Interrupts \/ EndSequences
  <2>1. PICK n \in Turns : Interrupted(n) \/ EndSequence(n)
    BY <1>8 DEF Interrupts, EndSequences
  <2>2. CASE Interrupted(n)
    <3>1. /\ task' = task /\ holder' = holder /\ codex'.turn = 0 /\ ~ codex'.asking
          /\ codex'.up = codex.up /\ codex'.told = codex.told /\ codex'.starts = codex.starts
      BY <2>2 DEF Interrupted, Typed, CodexType
    <3> QED
      BY <3>1, AsksStands
  <2>3. CASE EndSequence(n)
    <3>1. /\ task'.ask = task.ask /\ task'.loaded = task.loaded
      BY <2>3 DEF EndSequence, Typed, TaskType
    <3>2. /\ codex'.up = codex.up /\ codex'.told = codex.told /\ codex'.turn = codex.turn
          /\ codex'.asking = codex.asking /\ codex'.inbox = codex.inbox /\ codex'.starts = {}
          /\ holder' = holder
      BY <2>3 DEF EndSequence, Quiet, Typed, CodexType
    <3>3. AsksOpen => AsksOpen'
      BY <3>1, <3>2 DEF AsksOpen
    <3> QED
      BY <1>s, <3>1, <3>2, <3>3, AsksStands
  <2> QED
    BY <2>1, <2>2, <2>3
<1>9. CASE Conclusions \/ FollowOns
  <2>1. PICK c \in task.concluding : Conclude(c) \/ FollowOn(c)
    BY <1>9 DEF Conclusions, FollowOns
  <2>2. task.turn.n \in Turns /\ Under /\ lock = "mine"
    BY <1>0, <1>b, <2>1 DEF Control, OneEnd, Routes, Working, Under
  <2>3. CASE Conclude(c)
    BY <1>d, <2>2, <2>3, EndingIs DEF Concludes, Rest
  <2>4. CASE FollowOn(c)
    <3>1. /\ BeginsNew /\ codex'.inbox = codex.inbox /\ holder' = holder /\ Free
          /\ task'.loaded = task.loaded
      BY <2>2, <2>4, EndingIs DEF MayTake
    <3>2. task'.state \notin OVER /\ task.state \notin OVER
      BY <2>2, <3>1 DEF BeginsNew, OVER, Under, InTurn, TURN_STATES
    <3>3. codex'.asking => AsksOpen'
      BY <3>1 DEF Asks, AsksOpen, BeginsNew
    <3> QED
      BY <3>1, <3>2, <3>3 DEF Asks, BeginsNew, Free
  <2> QED
    BY <2>1, <2>3, <2>4
<1>10. CASE \/ Create \/ OpeningFails \/ ResumeFails \/ SteerWithoutTurn \/ Steer \/ Steered
            \/ ClaimSettle \/ ClaimExpires
  <2>1. /\ codex' = codex /\ task'.loaded = task.loaded /\ task'.ask = task.ask
        /\ holder' = "turn" => holder = "turn"
    BY <1>10, SimpleIs DEF Keeps, Rest
  <2> QED
    BY <1>d, <2>1
<1>11. CASE \/ StopLeftovers \/ LeftoversStopped \/ RecheckBegins \/ Recheck
            \/ Settles \/ Delete
  <2>1. /\ codex' = codex /\ task'.loaded = task.loaded /\ task'.ask = task.ask
        /\ holder' = "turn" => holder = "turn"
    BY <1>11, SettlingIs DEF Rest
  <2> QED
    BY <1>d, <2>1
<1>12. CASE Ended
  <2>1. /\ codex' = codex /\ task'.ask = task.ask /\ holder' = "nobody" /\ task'.state = "ended"
    BY <1>12, SettlingIs
  <2> QED
    BY <2>1 DEF Asks, AsksOpen, OVER
<1>13. CASE \E n \in Turns : CodexTakes(n)
  <2>1. PICK n \in Turns : CodexTakes(n)
    BY <1>13
  <2> DEFINE m == [kind |-> "started", n |-> n, failed |-> FALSE]
  <2>2. /\ task'.ask = task.ask /\ task'.loaded = task.loaded /\ task.loaded /\ holder' = holder
        /\ codex.up /\ codex'.up = codex.up /\ codex'.told = codex.told
        /\ codex'.asking = codex.asking
        /\ codex'.inbox = Append(codex.inbox, m)
    BY <2>1 DEF CodexTakes, Typed, TaskType, CodexType
  <2> HIDE DEF m
  <2>3. AsksOpen => AsksOpen'
    BY <2>2, AsksSays
  <2> QED
    BY <2>2, <2>3 DEF Asks
<1>14. CASE CodexAsks
  <2> DEFINE m == [kind |-> "asks", n |-> codex.turn, failed |-> FALSE]
  <2>1. /\ task' = task /\ holder' = holder /\ codex.turn # 0
        /\ codex'.up = codex.up /\ codex'.told = codex.told /\ codex'.starts = codex.starts
        /\ codex'.inbox = Append(codex.inbox, m) /\ m.kind = "asks"
    BY <1>14 DEF CodexAsks, Typed, CodexType
  <2> HIDE DEF m
  <2>2. AsksOpen'
    BY <2>1, AsksSays
  <2> QED
    BY <2>1, <2>2 DEF Asks
<1>15. CASE \E failed \in BOOLEAN : CodexCompletes(failed)
  <2>1. /\ task' = task /\ holder' = holder /\ codex.turn # 0 /\ ~ codex'.asking
        /\ codex'.up = codex.up /\ codex'.told = codex.told /\ codex'.starts = codex.starts
        /\ codex'.turn = 0
    BY <1>15 DEF CodexCompletes, Typed, CodexType
  <2> QED
    BY <2>1, AsksStands
<1>16. CASE \/ \E p \in Procs : CommandStarts(p) \/ CommandEnds(p) \/ CommandStrays(p)
            \/ Sample \/ OthersLock
  <2>1. task' = task /\ codex' = codex /\ holder' = holder
    BY <1>16 DEF CommandStarts, CommandEnds, CommandStrays, Sample, OthersLock, outside
  <2> QED
    BY <1>d, <2>1
<1>17. CASE CodexStarts
  <2>1. /\ task' = task /\ holder' = holder /\ ~ codex.up /\ codex.told /\ codex'.up
        /\ codex'.told = codex.told /\ codex'.turn = codex.turn
        /\ codex'.asking = codex.asking /\ codex'.inbox = codex.inbox
    BY <1>17 DEF CodexStarts, Typed, CodexType
  <2> QED
    BY <2>1 DEF Asks, AsksOpen
<1>18. CASE CodexEnds
  <2>1. /\ task'.loaded = task.loaded /\ holder' = holder
        /\ ~ codex'.up /\ codex'.turn = 0 /\ ~ codex'.asking /\ codex'.starts = {}
    BY <1>18 DEF CodexEnds, Typed, TaskType, CodexType
  <2> QED
    BY <2>1 DEF Asks
<1>19. CASE Restart
  <2>1. Restarted
    BY <1>19, RestartIs
  <2>2. codex'.up /\ codex'.told /\ codex'.turn = 0 /\ ~ codex'.asking /\ holder' = "nobody"
    BY <2>1 DEF Restarted
  <2> QED
    BY <2>2 DEF Asks
<1> QED
  BY <1>1, <1>2, <1>3, <1>4, <1>5, <1>6, <1>7, <1>8, <1>9, <1>10, <1>11, <1>12, <1>13, <1>14,
     <1>15, <1>16, <1>17, <1>18, <1>19, <1>20 DEF Next

-----------------------------------------------------------------------------
\* The inductive invariant: each part under the faults that leave it true.
TaskInvariant ==
  /\ Controlled
  /\ Quiet => Asks
  /\ Quiet /\ "deaf" \notin faults => Heeds
  /\ Quiet /\ "deaf" \notin faults /\ "blind" \notin faults => Gone

LEMMA TaskInvariantInit ==
  ASSUME TaskAssumption, Init PROVE TaskInvariant
<1>1. Controlled
  BY ControlledInit
<1>2. /\ task.state = "none" /\ task.sends = {} /\ task.concluding = {}
      /\ codex.turn = 0 /\ codex.starts = {} /\ codex.inbox = <<>> /\ holder = "nobody"
      /\ codex.up /\ codex.told /\ ~ codex.asking
  BY DEF Init, NewTask
<1>3. Asks
  BY <1>2 DEF Asks
<1>4. Heeds
  BY <1>2 DEF Heeds, Silent
<1>5. Gone
  BY <1>2 DEF Gone, NeedsSettle, SETTLE_STATES
<1> QED
  BY <1>1, <1>3, <1>4, <1>5 DEF TaskInvariant

LEMMA TaskInvariantStep ==
  ASSUME TaskAssumption, TaskInvariant, [Next]_vars PROVE TaskInvariant'
<1>1. Controlled' /\ (Quiet => Stands)
  BY ControlledStep DEF TaskInvariant
<1>2. CASE Next
  <2>1. faults' = faults
    BY <1>2, OthersStand
  <2>2. Quiet => Asks'
    BY <1>1, <1>2, AsksStep DEF TaskInvariant, Controlled
  <2>3. Quiet /\ "deaf" \notin faults => Heeds'
    BY <1>2, HeedsStep DEF TaskInvariant, Controlled
  <2>4. Quiet /\ "deaf" \notin faults /\ "blind" \notin faults => Gone'
    BY <1>2, GoneStep DEF TaskInvariant, Controlled
  <2> QED
    BY <1>1, <2>1, <2>2, <2>3, <2>4 DEF TaskInvariant, Quiet
<1>3. CASE UNCHANGED vars
  <2>1. /\ Asks => Asks'
        /\ Heeds => Heeds'
        /\ Gone => Gone'
    BY <1>3 DEF vars, Asks, AsksOpen, Heeds, Silent, Gone, But, Under, InTurn, NeedsSettle
  <2> QED
    BY <1>1, <1>3, <2>1 DEF TaskInvariant, Quiet, vars
<1> QED
  BY <1>2, <1>3

\* The invariant the theorems of this module rest on: the types and the beginning under every
\* fault, who concludes, claims and works while Codex is in time, what Codex may do while it
\* heeds, and which commands may run on while ps answers.
THEOREM TaskIsKept == Spec => []TaskInvariant
<1>1. Init => TaskInvariant
  BY TaskAssumption, TaskInvariantInit
<1>2. TaskInvariant /\ [Next]_vars => TaskInvariant'
  BY TaskAssumption, TaskInvariantStep
<1> QED
  BY <1>1, <1>2, PTL DEF Spec

\* Codex, when it obeys turn/interrupt and says what it does in time, works in the project
\* only for the turn the task shows as running or being stopped.
THEOREM NoTurnIsUnseen == Spec => []NoTurnUnseen
<1>1. TaskInvariant => NoTurnUnseen
  BY DEF TaskInvariant, Heeds, Silent, Under, NoTurnUnseen, Only, Quiet
<1> QED
  BY <1>1, TaskIsKept, PTL

\* Whichever of a conclusion, a look at the leftovers, the owner's Stop of them or a restart
\* offers a task for settling, no command runs then that RAVIS has on record, nor one that every
\* look could find: a command that runs on had slipped from the looks.
THEOREM GoneIsAlwaysTrue == Spec => []GoneIsTrue
<1>1. TaskInvariant => GoneIsTrue
  BY DEF TaskInvariant, Gone, But, GoneIsTrue, Only, Quiet
<1> QED
  BY <1>1, TaskIsKept, PTL

\* Codex never waits for an answer that nobody can give any more.
THEOREM AsksAreAlwaysAnswered == Spec => []AsksAreAnswered
<1>1. TaskInvariant => AsksAreAnswered
  BY TaskAssumption, TypesHold, QuietIs
     DEF TaskInvariant, Controlled, Asks, AsksOpen, AsksAreAnswered
<1> QED
  BY <1>1, TaskIsKept, PTL

=============================================================================
