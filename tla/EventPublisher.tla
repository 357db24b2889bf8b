---------------------------- MODULE EventPublisher ----------------------------
(***************************************************************************)
(* How a service publishes its events to NERVIS                            *)
(* (protocol/ecosystem_protocol/publisher.py): emit appends to a bounded   *)
(* buffer and returns, a background task posts batches of it and backs off *)
(* when the collector does not answer, and a service that stops cancels    *)
(* the task and drains what is left.  Without the task (a CLI benchmark)   *)
(* only the drain sends.                                                   *)
(*                                                                         *)
(* Everything runs on one event loop: an action is what runs between two   *)
(* awaits, and the awaits are the sleep and the POST.  Events are numbered *)
(* in the order they were emitted.                                         *)
(***************************************************************************)
EXTENDS Integers, Sequences, FiniteSets, Functions

CONSTANTS
  Buffer,        \* the buffer's maxlen (DEFAULT_BUFFER)
  Batch,         \* events in one request (BATCH)
  MaxDoublings,  \* failures after which the wait grows no more (MAX_BACKOFF_SECONDS)
  MaxEvents      \* bound: events emitted

ASSUME PublisherAssumption ==
  /\ Buffer \in Nat \ {0} /\ Batch \in Nat \ {0}
  /\ MaxDoublings \in Nat \ {0} /\ MaxEvents \in Nat

VARIABLES
  emitted,      \* events queued so far
  pending,      \* _pending
  published,    \* _published
  dropped,      \* _dropped
  consecutive,  \* _consecutive, as far as the wait depends on it
  pump,         \* run: "asleep", "posting", or "off" (no task, or cancelled)
  sent,         \* has this cycle of run moved anything?
  drain,        \* drain: "no", "posting", "done"
  batch,        \* the batch each of the two is posting
  collector,    \* "up", "down", or "flaky": it refuses some posts, loses some answers
  timeline      \* what it keeps, in order of arrival; a known event once

counts == <<published, dropped>>
vars == <<emitted, pending, counts, consecutive, pump, sent, drain, batch, collector, timeline>>

Flusher == {"pump", "drain"}

Smaller(m, n) == IF m < n THEN m ELSE n

Init ==
  /\ emitted = 0 /\ pending = <<>> /\ published = 0 /\ dropped = 0
  /\ consecutive = 0 /\ pump \in {"asleep", "off"} /\ sent = FALSE
  /\ drain = "no" /\ batch = [f \in Flusher |-> <<>>]
  /\ collector = "up" /\ timeline = <<>>

-----------------------------------------------------------------------------
(* emit: a full buffer loses its oldest event, counted.                   *)

Emit ==
  /\ emitted < MaxEvents /\ drain # "done"
  /\ emitted' = emitted + 1
  /\ IF Len(pending) = Buffer
       THEN pending' = Append(Tail(pending), emitted + 1) /\ dropped' = dropped + 1
       ELSE pending' = Append(pending, emitted + 1) /\ UNCHANGED dropped
  /\ UNCHANGED <<published, consecutive, pump, sent, drain, batch, collector, timeline>>

-----------------------------------------------------------------------------
(* flush                                                                  *)

\* Its first half: a batch leaves the front of the buffer and is posted.
TakesBatch(f) ==
  LET n == Smaller(Batch, Len(pending)) IN
  /\ batch' = [batch EXCEPT ![f] = SubSeq(pending, 1, n)]
  /\ pending' = SubSeq(pending, n + 1, Len(pending))

\* The indexes I, from the first on.
Ascending(I) ==
  {p \in [1 .. Cardinality(I) -> I] :
     Range(p) = I /\ \A i, j \in DOMAIN p : i < j => p[i] < p[j]}

\* The collector keeps what it has not kept already, in the batch's order.
Arrives(b) ==
  \E p \in Ascending({i \in DOMAIN b : b[i] \notin Range(timeline)}) :
    timeline' = timeline \o [i \in DOMAIN p |-> b[p[i]]]

\* It answers that it kept the batch.
Accepted(f) ==
  /\ collector # "down" /\ Arrives(batch[f])
  /\ published' = published + Len(batch[f])

\* The post raises, or is answered 400 or above; or the batch was kept and
\* its answer is lost.
Refused(f) ==
  \/ collector # "up" /\ UNCHANGED timeline
  \/ collector = "flaky" /\ Arrives(batch[f])

\* Mutants of PutBack: without the count, at the back.
PutBackUncounted(f) ==
  LET all == batch[f] \o pending IN
  /\ pending' = SubSeq(all, 1, Smaller(Buffer, Len(all)))
  /\ batch' = [batch EXCEPT ![f] = <<>>]
  /\ UNCHANGED dropped

PutBackAtTheBack(f) ==
  LET all == pending \o batch[f] IN
  /\ pending' = SubSeq(all, 1, Smaller(Buffer, Len(all)))
  /\ dropped' = dropped + (Len(all) - Smaller(Buffer, Len(all)))
  /\ batch' = [batch EXCEPT ![f] = <<>>]

\* What a failed flush leaves behind: its batch is put back at the front, one
\* event at a time, and a full deque makes room at its other end.
PutBack(f) ==
  LET all == batch[f] \o pending IN
  /\ pending' = SubSeq(all, 1, Smaller(Buffer, Len(all)))
  /\ dropped' = dropped + (Len(all) - Smaller(Buffer, Len(all)))
  /\ batch' = [batch EXCEPT ![f] = <<>>]

\* A cancellation lands in the post: nothing is put back and nothing counted,
\* and the request may have arrived or not.
CutOff(f) == UNCHANGED timeline \/ (collector # "down" /\ Arrives(batch[f]))

-----------------------------------------------------------------------------
(* run: sleep, then flush until one moves nothing.                        *)

\* Mutant of Wakes: a producer that has failed often enough stops trying.
WakesWhileHopeful ==
  /\ pump = "asleep" /\ consecutive < MaxDoublings
  /\ pending # <<>>
  /\ TakesBatch("pump")
  /\ pump' = "posting" /\ sent' = FALSE
  /\ UNCHANGED <<emitted, counts, consecutive, drain, collector, timeline>>

Wakes ==
  /\ pump = "asleep"
  /\ IF pending = <<>>
       THEN consecutive' = 0 /\ UNCHANGED <<pending, pump, sent, batch>>
       ELSE /\ TakesBatch("pump")
            /\ pump' = "posting" /\ sent' = FALSE
            /\ UNCHANGED consecutive
  /\ UNCHANGED <<emitted, counts, drain, collector, timeline>>

PumpAccepted ==
  /\ pump = "posting" /\ Accepted("pump")
  /\ sent' = TRUE
  /\ TakesBatch("pump")
  /\ IF pending = <<>> THEN pump' = "asleep" /\ consecutive' = 0
                       ELSE UNCHANGED <<pump, consecutive>>
  /\ UNCHANGED <<emitted, dropped, drain, collector>>

PumpRefused ==
  /\ pump = "posting" /\ Refused("pump")
  /\ PutBack("pump")
  /\ pump' = "asleep"
  /\ consecutive' = IF sent THEN 0 ELSE Smaller(consecutive + 1, MaxDoublings)
  /\ UNCHANGED <<emitted, published, sent, drain, collector>>

-----------------------------------------------------------------------------
(* The service stops: the task is cancelled and drain begins at once.     *)

Stop ==
  /\ drain = "no"
  /\ pump' = "off"
  /\ IF pump = "posting" THEN CutOff("pump") ELSE UNCHANGED timeline
  /\ LET n == Smaller(Batch, Len(pending)) IN
       /\ batch' = [pump |-> <<>>, drain |-> SubSeq(pending, 1, n)]
       /\ pending' = SubSeq(pending, n + 1, Len(pending))
  /\ drain' = IF pending = <<>> THEN "done" ELSE "posting"
  /\ UNCHANGED <<emitted, counts, consecutive, sent, collector>>

DrainAccepted ==
  /\ drain = "posting" /\ Accepted("drain")
  /\ TakesBatch("drain")
  /\ drain' = IF pending = <<>> THEN "done" ELSE "posting"
  /\ UNCHANGED <<emitted, dropped, consecutive, pump, sent, collector>>

\* A flush that moves nothing ends the drain.
DrainRefused ==
  /\ drain = "posting" /\ Refused("drain")
  /\ PutBack("drain")
  /\ drain' = "done"
  /\ UNCHANGED <<emitted, published, consecutive, pump, sent, collector>>

\* So does its deadline, in the middle of a post.
DrainOutOfTime ==
  /\ drain = "posting" /\ CutOff("drain")
  /\ batch' = [batch EXCEPT !["drain"] = <<>>]
  /\ drain' = "done"
  /\ UNCHANGED <<emitted, pending, counts, consecutive, pump, sent, collector>>

-----------------------------------------------------------------------------
CollectorChanges ==
  /\ collector' \in {"up", "flaky", "down"} \ {collector}
  /\ UNCHANGED <<emitted, pending, counts, consecutive, pump, sent, drain, batch, timeline>>

Pump == Wakes \/ PumpAccepted \/ PumpRefused

Next ==
  \/ Emit \/ Pump \/ Stop
  \/ DrainAccepted \/ DrainRefused \/ DrainOutOfTime
  \/ CollectorChanges

Spec == Init /\ [][Next]_vars

\* The sleep ends and a post is answered or times out.
FairSpec == Spec /\ WF_vars(Pump)

-----------------------------------------------------------------------------
(* What must hold.                                                        *)

Events == 1 .. emitted
Queued == Range(pending) \cup Range(batch["pump"]) \cup Range(batch["drain"])
Lost   == Events \ (Range(timeline) \cup Queued)

\* Every variable stays within its type, and the buffer within its bound.
TypeOK ==
  /\ emitted \in Nat /\ published \in Nat /\ dropped \in Nat
  /\ pending \in Seq(Events) /\ Len(pending) <= Buffer
  /\ consecutive \in 0 .. MaxDoublings
  /\ pump \in {"asleep", "posting", "off"} /\ drain \in {"no", "posting", "done"}
  /\ sent \in BOOLEAN /\ collector \in {"up", "flaky", "down"}
  /\ batch \in [Flusher -> Seq(Events)]
  /\ timeline \in Seq(Events)

\* snapshot() answers for every event while the service runs: published,
\* dropped, queued or being posted, exactly once each.  A stop may leave the
\* two batches it interrupted unanswered for, and no more.  And the buffer is
\* bounded all the while (TypeOK).
Accounted ==
  LET counted == published + dropped + Len(pending)
                   + Len(batch["pump"]) + Len(batch["drain"])
  IN /\ TypeOK
     /\ drain = "no" => counted = emitted
     /\ counted <= emitted /\ emitted <= counted + 2 * Batch

\* "Ordering survives an outage" (flush): the collector first sees events in
\* the order they were emitted, and the buffer holds them in that order behind
\* the batch being posted.
Rising(s) == \A i, j \in DOMAIN s : i < j => s[i] < s[j]

InOrder ==
  /\ Rising(timeline) /\ Rising(pending)
  /\ \A f \in Flusher : \A i \in DOMAIN batch[f], j \in DOMAIN pending :
       batch[f][i] < pending[j]

\* A collector that comes back and stays gets everything that was not
\* dropped, as long as the service runs.
Settled(e) == e \in Range(timeline) \/ e \in Lost

OutageEnds ==
  <>[](collector = "up" /\ pump # "off") => \A e \in 1 .. MaxEvents : (e \in Events) ~> Settled(e)
=============================================================================
