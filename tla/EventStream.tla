----------------------------- MODULE EventStream -----------------------------
(***************************************************************************)
(* NERVIS's live event feed to one client (nervis/api/events.py and the    *)
(* fan-out of nervis/events.py): the hub stores an event and puts it into  *)
(* the bounded queue of each subscriber, a connection replays what the     *)
(* client's cursor says it missed and goes on with the queue, a subscriber *)
(* that falls behind is dropped with a gap frame, and retention deletes    *)
(* the oldest rows.  The client is the dashboard's (nervis/index.html): it *)
(* keeps the id of the last frame and reconnects with it until it is told  *)
(* that the cursor has expired.                                            *)
(*                                                                         *)
(* Events are numbered by their sequence.  The route and its generator are *)
(* split where they await: after the answer to the request, after the      *)
(* first frame, and at every frame.  A frame counts as received when it is *)
(* sent; one lost on the way is a connection closed a frame earlier.       *)
(***************************************************************************)
EXTENDS Integers, Sequences, FiniteSets

CONSTANTS SubscriberBuffer,  \* SUBSCRIBER_BUFFER
          ResumeLimit,       \* RESUME_LIMIT
          FreshTail,         \* FRESH_TAIL
          MaxEvents,         \* bound: events stored
          MaxCloses,         \* bound: connections lost
          Faults             \* what may happen at a bad moment:
                             \*   "stored"  an event before a new client's subscription
                             \*   "pruned"  retention before the replay is read
                             \*   "closed"  a connection lost before its gap frame

ASSUME StreamAssumption ==
    /\ SubscriberBuffer \in Nat \ {0} /\ ResumeLimit \in Nat \ {0} /\ FreshTail \in Nat \ {0}
    /\ MaxEvents \in Nat /\ MaxCloses \in Nat
    /\ Faults \subseteq {"stored", "pruned", "closed"}

VARIABLES stored,      \* the newest sequence
          oldest,      \* the oldest sequence the table holds
          phase,       \* the connection: "closed", "answered", "subscribed", "sending"
          start,       \* where it resumes from
          fresh,       \* did it come without a cursor?
          replay,      \* what it read from the table and has not sent
          queue,       \* its queue in the hub, a gap frame being Gap
          subscribed,  \* does the hub put events into it?
          cursor,      \* the client's cursor, 0 for none
          seen,        \* the events the client has received
          excused,     \* events older than where it began, or dropped with a gap frame
          gaps,        \* how often the client was told that it missed events
          closes       \* connections lost so far

connection == <<phase, start, fresh, replay, queue, subscribed>>
client == <<cursor, seen, excused, gaps>>
vars == <<stored, oldest, connection, client, closes>>

Gap == 0
Larger(m, n) == IF m > n THEN m ELSE n
Smaller(m, n) == IF m < n THEN m ELSE n
Items(s) == {s[i] : i \in DOMAIN s}
GapWaits == Gap \in Items(queue)

Init ==
    /\ stored = 0 /\ oldest = 1
    /\ phase = "closed" /\ start = 0 /\ fresh = TRUE /\ replay = <<>>
    /\ queue = <<>> /\ subscribed = FALSE
    /\ cursor = 0 /\ seen = {} /\ excused = {} /\ gaps = 0 /\ closes = 0
----------------------------------------------------------------------------
(* The hub *)

\* Mutant of Broadcast: a queue that is full takes the event.
BroadcastUnbounded(e) ==
    /\ queue' = IF subscribed THEN Append(queue, e) ELSE queue
    /\ UNCHANGED <<subscribed, excused>>

\* Mutant of Broadcast: no room is made for the gap frame, which is dropped too.
BroadcastWithoutRoom(e) ==
    /\ IF subscribed /\ Len(queue) < SubscriberBuffer
       THEN queue' = Append(queue, e) /\ UNCHANGED subscribed
       ELSE subscribed' = FALSE /\ UNCHANGED queue
    /\ UNCHANGED excused

\* _broadcast: a full queue is no longer served, and its oldest event gives way to a gap frame.
Broadcast(e) ==
    IF ~subscribed THEN UNCHANGED <<queue, subscribed, excused>>
    ELSE IF Len(queue) < SubscriberBuffer
    THEN queue' = Append(queue, e) /\ UNCHANGED <<subscribed, excused>>
    ELSE /\ queue' = Append(Tail(queue), Gap) /\ subscribed' = FALSE
         /\ excused' = excused \cup {Head(queue)}

Store ==
    /\ stored < MaxEvents
    /\ phase = "answered" /\ fresh => "stored" \in Faults
    /\ stored' = stored + 1
    /\ Broadcast(stored + 1)
    /\ UNCHANGED <<oldest, phase, start, fresh, replay, cursor, seen, gaps, closes>>

\* enforce_retention, which keeps the newest row at least: NERVIS has stored one within the time.
Prune ==
    /\ phase \in {"answered", "subscribed"} => "pruned" \in Faults
    /\ oldest' \in oldest + 1 .. stored
    /\ UNCHANGED <<stored, connection, client, closes>>
----------------------------------------------------------------------------
(* A connection *)

\* Mutant of ResumePoint: what retention deleted is skipped without a word.
ResumePointUnchecked == start' = IF cursor = 0 THEN Larger(0, stored - FreshTail) ELSE cursor

\* _resume_point: a new client gets the newest events, one with a cursor what follows it, unless
\* some of that has been deleted.
ResumePoint ==
    /\ start' = IF cursor = 0 THEN Larger(0, stored - FreshTail) ELSE cursor
    /\ cursor # 0 => cursor >= oldest - 1

Connect ==
    /\ phase = "closed"
    /\ ResumePoint
    /\ phase' = "answered" /\ fresh' = (cursor = 0)
    /\ UNCHANGED <<stored, oldest, replay, queue, subscribed, client, closes>>

\* 409 EVENT_CURSOR_EXPIRED: the client says so and starts anew.
Expired ==
    /\ phase = "closed" /\ cursor # 0 /\ cursor < oldest - 1
    /\ cursor' = 0 /\ gaps' = gaps + 1
    /\ UNCHANGED <<stored, oldest, connection, seen, excused, closes>>

\* The generator begins: it subscribes, and its first frame is sent.
Subscribe ==
    /\ phase = "answered"
    /\ phase' = "subscribed" /\ subscribed' = TRUE /\ queue' = <<>>
    /\ UNCHANGED <<stored, oldest, start, fresh, replay, client, closes>>

\* Then it reads what the client missed, oldest first and up to a limit.
Replay ==
    /\ phase = "subscribed"
    /\ LET first == Larger(start + 1, oldest)
           limit == IF fresh THEN FreshTail ELSE ResumeLimit
           last == Smaller(stored, first + limit - 1)
       IN replay' = [i \in 1 .. last - first + 1 |-> first + i - 1]
    /\ phase' = "sending"
    /\ UNCHANGED <<stored, oldest, start, fresh, queue, subscribed, client, closes>>

\* The client takes a frame, and its id for the cursor.
Received(e) ==
    /\ seen' = seen \cup {e} /\ cursor' = e
    /\ excused' = IF cursor = 0 THEN excused \cup 1 .. e - 1 ELSE excused

SendReplayed ==
    /\ phase = "sending" /\ replay # <<>>
    /\ Received(Head(replay))
    /\ replay' = Tail(replay)
    /\ UNCHANGED <<stored, oldest, phase, start, fresh, queue, subscribed, gaps, closes>>

SendQueued ==
    /\ phase = "sending" /\ replay = <<>> /\ queue # <<>> /\ Head(queue) # Gap
    /\ Received(Head(queue))
    /\ queue' = Tail(queue)
    /\ UNCHANGED <<stored, oldest, phase, start, fresh, replay, subscribed, gaps, closes>>

\* Mutant of GapTaken: the frame's empty id takes the client's cursor.
GapTakenWithCursor == phase' = "closed" /\ cursor' = 0

\* A gap frame has no id, and ends the stream.
GapTaken == phase' = "closed" /\ UNCHANGED cursor

SendGap ==
    /\ phase = "sending" /\ replay = <<>> /\ queue # <<>> /\ Head(queue) = Gap
    /\ GapTaken
    /\ gaps' = gaps + 1 /\ queue' = Tail(queue) /\ subscribed' = FALSE
    /\ UNCHANGED <<stored, oldest, start, fresh, replay, seen, excused, closes>>

\* The connection is lost, or NERVIS stops, and the generator unsubscribes.
Close ==
    /\ phase # "closed" /\ closes < MaxCloses
    /\ GapWaits => "closed" \in Faults
    /\ closes' = closes + 1
    /\ phase' = "closed" /\ replay' = <<>> /\ queue' = <<>> /\ subscribed' = FALSE
    /\ UNCHANGED <<stored, oldest, start, fresh, client>>
----------------------------------------------------------------------------
Reconnects == Connect \/ Expired
Streams == Subscribe \/ Replay \/ SendReplayed \/ SendQueued \/ SendGap

Next == Store \/ Prune \/ Reconnects \/ Streams \/ Close

Safe == Init /\ [][Next]_vars

\* The client retries after its interval, and a connection is served while it lasts.
Spec == Safe /\ WF_vars(Reconnects) /\ WF_vars(Streams)
----------------------------------------------------------------------------
(* Properties *)

Sequences == 1 .. MaxEvents

\* The types of the variables; no queue holds more than its bound.
TypeOK ==
    /\ stored \in 0 .. MaxEvents /\ oldest \in 1 .. MaxEvents + 1
    /\ phase \in {"closed", "answered", "subscribed", "sending"}
    /\ start \in 0 .. MaxEvents /\ fresh \in BOOLEAN /\ subscribed \in BOOLEAN
    /\ replay \in Seq(Sequences)
    /\ queue \in Seq(Sequences \cup {Gap}) /\ Len(queue) <= SubscriberBuffer
    /\ cursor \in 0 .. MaxEvents /\ seen \subseteq Sequences /\ excused \subseteq Sequences
    /\ gaps \in Nat /\ closes \in 0 .. MaxCloses

\* The feed as its documents promise it: a gap frame counts as told from when it is queued.
Promise == INSTANCE Feed WITH
    log <- stored, read <- seen, joined <- cursor # 0, excused <- excused,
    told <- gaps + IF GapWaits THEN 1 ELSE 0

\* The stream's code never leaves "a feed with a hole in it and a reader with no reason to doubt
\* it": each step of it is one of the promised feed.
ImplementsFeed == Promise!Safe

\* A client that keeps reconnecting is given every event it is not told of.
EveryEventGiven == Promise!Live

\* event_frames: "an event that arrived between the reconnect and the subscribe is delivered once
\* rather than missed".  With the fault "stored" it fails: an event that comes before a new client
\* subscribes can fall behind the tail, which is full.
NoneMissed == \A e \in 1 .. stored, f \in seen : e < f => e \in seen \cup excused
=============================================================================
