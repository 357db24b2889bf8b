-------------------------- MODULE EventStream_proofs --------------------------
(***************************************************************************)
(* Proofs about EventStream, for every buffer, limit and number of events: *)
(* its types; that no event is missed, short of what may be stored or      *)
(* deleted at a bad moment and of a client further behind than a replay    *)
(* reaches; and that every step of it is a step of Feed, if no connection  *)
(* is lost in front of its gap frame either.                               *)
(*                                                                         *)
(* The inductive invariant says of every event that it has been given, is  *)
(* excused, or waits in the replay or in the queue in front of all later   *)
(* ones.                                                                   *)
(***************************************************************************)
EXTENDS EventStream, SequenceTheorems, TLAPS

\* Nothing is stored or deleted at a bad moment, and no client is too far behind for its replay.
Quiet == Faults \subseteq {"closed"} /\ ResumeLimit >= MaxEvents

\* The event the connection will send next, or what will be stored next.
NextUp == IF replay # <<>> THEN replay[1]
          ELSE IF queue # <<>> THEN queue[1] ELSE stored + 1

\* What the client has, is not owed, or will not be owed once it joins with the next event.
Had == seen \cup excused \cup (IF cursor = 0 THEN 1 .. NextUp - 1 ELSE {})
Before(s, i) == {s[j] : j \in 1 .. i - 1}

\* The phases: what is empty when, and what a connection remembers of its client.
PhaseInv ==
    /\ phase # "sending" => replay = <<>>
    /\ phase \in {"closed", "answered"} => queue = <<>> /\ ~subscribed
    /\ phase \in {"answered", "subscribed"} =>
         IF fresh THEN cursor = 0 /\ start < Larger(stored, 1)
                  ELSE cursor = start /\ start # 0 /\ oldest <= start + 1
    /\ phase = "answered" /\ fresh => stored <= start + FreshTail
    /\ oldest <= Larger(stored, 1)

\* The queue: stored events in their order, and a gap frame only behind them, once it is dropped.
QueueInv ==
    /\ subscribed => ~GapWaits
    /\ \A i \in DOMAIN queue : queue[i] <= stored /\ (queue[i] = Gap => i = Len(queue))
    /\ \A i, j \in DOMAIN queue : i < j /\ queue[j] # Gap => queue[i] < queue[j]

\* The client: it has, or is not owed, everything up to its cursor.
ClientInv ==
    /\ cursor <= stored /\ \A e \in seen \cup excused : e <= stored
    /\ 1 .. cursor \subseteq seen \cup excused
    /\ \A e \in seen : 1 .. e \subseteq seen \cup excused

\* While the replay is to be read, it reaches what the queue does not hold.
BehindInv ==
    phase = "subscribed" /\ fresh =>
      /\ \A i \in DOMAIN queue : queue[i] # Gap =>
           1 .. queue[i] - 1 \subseteq 1 .. start + FreshTail \cup excused \cup Before(queue, i)
      /\ subscribed => 1 .. stored \subseteq 1 .. start + FreshTail \cup excused \cup Items(queue)

\* Then nothing is sent before what comes first, and nothing is left out.
AheadInv ==
    phase = "sending" =>
      /\ \A i \in DOMAIN replay :
           replay[i] \in 1 .. stored /\ 1 .. replay[i] - 1 \subseteq Had \cup Before(replay, i)
      /\ \A i \in DOMAIN queue : queue[i] # Gap =>
           1 .. queue[i] - 1 \subseteq Had \cup Items(replay) \cup Before(queue, i)
      /\ subscribed => 1 .. stored \subseteq Had \cup Items(replay) \cup Items(queue)

IInv == TypeOK /\ PhaseInv /\ QueueInv /\ ClientInv /\ BehindInv /\ AheadInv
-----------------------------------------------------------------------------
(* Sequences.                                                             *)

LEMMA TailFacts ==
  ASSUME NEW S, NEW s \in Seq(S), s # <<>>
  PROVE  /\ Len(s) \in Nat \ {0} /\ Head(s) = s[1] /\ s[1] \in S
         /\ Tail(s) \in Seq(S) /\ Len(Tail(s)) = Len(s) - 1
         /\ \A i \in 1 .. Len(s) - 1 : Tail(s)[i] = s[i + 1]
BY SMT

LEMMA AppendFacts ==
  ASSUME NEW S, NEW s \in Seq(S), NEW e \in S
  PROVE  /\ Append(s, e) \in Seq(S) /\ Len(Append(s, e)) = Len(s) + 1
         /\ \A i \in 1 .. Len(s) : Append(s, e)[i] = s[i]
         /\ Append(s, e)[Len(s) + 1] = e
BY SMT

LEMMA EmptyFacts ==
  ASSUME NEW S
  PROVE  <<>> \in Seq(S) /\ Len(<<>>) = 0 /\ Items(<<>>) = {}
BY DEF Items

LEMMA ItemsOfTail ==
  ASSUME NEW S, NEW s \in Seq(S), s # <<>>
  PROVE  Items(s) = {s[1]} \cup Items(Tail(s))
<1>1. ASSUME NEW i \in DOMAIN s PROVE s[i] \in {s[1]} \cup Items(Tail(s))
  <2>1. CASE i = 1
    BY <2>1
  <2>2. CASE i # 1
    <3>1. i - 1 \in 1 .. Len(s) - 1 /\ s[i] = Tail(s)[i - 1]
      BY <2>2, TailFacts
    <3> QED
      BY <3>1, TailFacts DEF Items
  <2> QED
    BY <2>1, <2>2
<1>2. ASSUME NEW i \in DOMAIN Tail(s) PROVE Tail(s)[i] \in Items(s)
  <2>1. i + 1 \in DOMAIN s /\ Tail(s)[i] = s[i + 1]
    BY TailFacts
  <2> QED
    BY <2>1 DEF Items
<1>3. s[1] \in Items(s)
  BY TailFacts DEF Items
<1> QED
  BY <1>1, <1>2, <1>3 DEF Items

LEMMA ItemsOfAppend ==
  ASSUME NEW S, NEW s \in Seq(S), NEW e \in S
  PROVE  Items(Append(s, e)) = Items(s) \cup {e}
<1>1. ASSUME NEW i \in DOMAIN Append(s, e) PROVE Append(s, e)[i] \in Items(s) \cup {e}
  <2>1. CASE i \in 1 .. Len(s)
    BY <2>1, AppendFacts DEF Items
  <2>2. CASE i = Len(s) + 1
    BY <2>2, AppendFacts
  <2> QED
    BY <2>1, <2>2, AppendFacts
<1>2. ASSUME NEW i \in DOMAIN s PROVE s[i] \in Items(Append(s, e))
  <2>1. i \in DOMAIN Append(s, e) /\ s[i] = Append(s, e)[i]
    BY AppendFacts
  <2> QED
    BY <2>1 DEF Items
<1>3. e \in Items(Append(s, e))
  <2>1. Len(s) + 1 \in DOMAIN Append(s, e)
    BY AppendFacts
  <2> QED
    BY <2>1, AppendFacts DEF Items
<1> QED
  BY <1>1, <1>2, <1>3 DEF Items
-----------------------------------------------------------------------------
(* Type correctness.                                                      *)

\* A queue that is served holds no gap frame.
ServedInv == TypeOK /\ (subscribed => ~GapWaits)

\* What a queue becomes when an event is put into it.
LEMMA BroadcastTyped ==
  ASSUME ServedInv, stored < MaxEvents, Broadcast(stored + 1)
  PROVE  /\ queue' \in Seq(Sequences \cup {Gap}) /\ Len(queue') <= SubscriberBuffer
         /\ subscribed' \in BOOLEAN /\ excused' \subseteq Sequences
         /\ subscribed' => ~GapWaits'
<1> DEFINE S == Sequences \cup {Gap}
<1> USE StreamAssumption
<1>1. /\ queue \in Seq(S) /\ Len(queue) <= SubscriberBuffer
      /\ stored + 1 \in S /\ Gap \in S /\ stored + 1 # Gap
  BY DEF ServedInv, TypeOK, Sequences, Gap
<1>2. CASE ~subscribed
  BY <1>2 DEF ServedInv, TypeOK, Broadcast
<1>3. CASE subscribed /\ Len(queue) < SubscriberBuffer
  <2>1. Append(queue, stored + 1) \in Seq(S) /\ Len(Append(queue, stored + 1)) = Len(queue) + 1
    BY <1>1, AppendFacts
  <2>2. Items(Append(queue, stored + 1)) = Items(queue) \cup {stored + 1}
    BY <1>1, ItemsOfAppend
  <2>3. queue' = Append(queue, stored + 1) /\ UNCHANGED <<subscribed, excused>>
    BY <1>3 DEF Broadcast
  <2>4. ~GapWaits'
    BY <1>1, <1>3, <2>2, <2>3 DEF ServedInv, GapWaits
  <2> QED
    BY <1>1, <1>3, <2>1, <2>3, <2>4 DEF ServedInv, TypeOK
<1>4. CASE subscribed /\ ~(Len(queue) < SubscriberBuffer)
  <2>1. queue # <<>>
    BY <1>1, <1>4
  <2>2. Tail(queue) \in Seq(S) /\ Len(Tail(queue)) = Len(queue) - 1 /\ Head(queue) = queue[1]
    BY <1>1, <2>1, TailFacts
  <2>3. Append(Tail(queue), Gap) \in Seq(S) /\ Len(Append(Tail(queue), Gap)) = Len(queue)
    BY <1>1, <2>1, <2>2, AppendFacts, TailFacts
  <2>4. queue[1] \in S /\ queue[1] # Gap
    BY <1>1, <1>4, <2>1, ItemsOfTail, TailFacts DEF ServedInv, GapWaits
  <2> QED
    BY <1>1, <1>4, <2>2, <2>3, <2>4 DEF ServedInv, TypeOK, Broadcast
<1> QED
  BY <1>2, <1>3, <1>4 DEF ServedInv, TypeOK

\* What a queue becomes when its first frame is sent.
LEMMA SentTyped ==
  ASSUME ServedInv, queue # <<>>, queue' = Tail(queue), subscribed' => subscribed
  PROVE  /\ queue' \in Seq(Sequences \cup {Gap}) /\ Len(queue') <= SubscriberBuffer
         /\ subscribed' => ~GapWaits'
<1>1. Items(queue') \subseteq Items(queue)
  BY ItemsOfTail DEF ServedInv, TypeOK
<1>2. queue' \in Seq(Sequences \cup {Gap}) /\ Len(queue') = Len(queue) - 1
  BY TailFacts DEF ServedInv, TypeOK
<1> QED
  BY <1>1, <1>2, StreamAssumption DEF ServedInv, TypeOK, GapWaits

\* The window that Replay reads is made of sequences.
LEMMA ReplayTyped ==
  ASSUME TypeOK, Replay PROVE replay' \in Seq(Sequences)
<1> DEFINE first == Larger(start + 1, oldest)
           last == Smaller(stored, first + (IF fresh THEN FreshTail ELSE ResumeLimit) - 1)
<1>1. first \in Nat \ {0} /\ last \in Int /\ last <= MaxEvents
  BY StreamAssumption DEF TypeOK, Larger, Smaller
<1>2. replay' = [i \in 1 .. last - first + 1 |-> first + i - 1]
  BY DEF Replay
<1>3. \A i \in 1 .. last - first + 1 : first + i - 1 \in Sequences
  BY <1>1, StreamAssumption DEF Sequences
<1> HIDE DEF first, last
<1>4. CASE last - first + 1 \in Nat
  BY <1>2, <1>3, <1>4
<1>5. CASE last - first + 1 \notin Nat
  <2>1. replay' = <<>>
    BY <1>1, <1>2, <1>5
  <2> QED
    BY <2>1
<1> QED
  BY <1>4, <1>5

LEMMA ReceivedTyped ==
  ASSUME TypeOK, NEW e \in Sequences, Received(e)
  PROVE  cursor' \in 0 .. MaxEvents /\ seen' \subseteq Sequences /\ excused' \subseteq Sequences
BY StreamAssumption DEF TypeOK, Received, Sequences

LEMMA ServedInit == ASSUME Init PROVE ServedInv
<1>1. replay \in Seq(Sequences) /\ queue \in Seq(Sequences \cup {Gap}) /\ Len(queue) = 0
  BY EmptyFacts DEF Init
<1>2. fresh \in BOOLEAN /\ subscribed \in BOOLEAN /\ phase = "closed"
  BY DEF Init
<1>3. stored \in 0 .. MaxEvents /\ oldest \in 1 .. MaxEvents + 1 /\ start \in 0 .. MaxEvents
  BY StreamAssumption DEF Init
<1>4. /\ cursor \in 0 .. MaxEvents /\ seen \subseteq Sequences /\ excused \subseteq Sequences
      /\ gaps \in Nat /\ closes \in 0 .. MaxCloses
  BY StreamAssumption DEF Init
<1>5. TypeOK
  BY <1>1, <1>2, <1>3, <1>4, StreamAssumption DEF TypeOK
<1>6. ~subscribed
  BY DEF Init
<1> QED
  BY <1>5, <1>6 DEF ServedInv

LEMMA ServedNext == ASSUME ServedInv, [Next]_vars PROVE ServedInv'
<1> USE StreamAssumption
<1>1. ASSUME Store PROVE ServedInv'
  BY <1>1, BroadcastTyped DEF Store, ServedInv, TypeOK
<1>2. ASSUME Prune PROVE ServedInv'
  BY <1>2 DEF Prune, connection, client, ServedInv, TypeOK, GapWaits
<1>3. ASSUME Connect PROVE ServedInv'
  <2>1. start' \in 0 .. MaxEvents
    BY <1>3 DEF Connect, ResumePoint, Larger, ServedInv, TypeOK
  <2> QED
    BY <1>3, <2>1 DEF Connect, client, ServedInv, TypeOK, GapWaits
<1>4. ASSUME Expired PROVE ServedInv'
  BY <1>4 DEF Expired, connection, ServedInv, TypeOK, GapWaits
<1>5. ASSUME Subscribe PROVE ServedInv'
  <2>1. Items(queue') = {}
    BY <1>5 DEF Subscribe, Items
  <2> QED
    BY <1>5, <2>1 DEF Subscribe, client, ServedInv, TypeOK, GapWaits
<1>6. ASSUME Replay PROVE ServedInv'
  BY <1>6, ReplayTyped DEF Replay, client, ServedInv, TypeOK, GapWaits
<1>7. ASSUME SendReplayed PROVE ServedInv'
  <2>1. replay[1] \in Sequences /\ replay' \in Seq(Sequences) /\ Received(replay[1])
    BY <1>7, TailFacts DEF SendReplayed, ServedInv, TypeOK
  <2> QED
    BY <1>7, <2>1, ReceivedTyped DEF SendReplayed, ServedInv, TypeOK, GapWaits
<1>8. ASSUME SendQueued PROVE ServedInv'
  <2>1. queue[1] \in Sequences /\ Received(queue[1])
    BY <1>8, TailFacts DEF SendQueued, ServedInv, TypeOK
  <2> QED
    BY <1>8, <2>1, ReceivedTyped, SentTyped DEF SendQueued, ServedInv, TypeOK
<1>9. ASSUME SendGap PROVE ServedInv'
  <2>1. queue' \in Seq(Sequences \cup {Gap}) /\ Len(queue') <= SubscriberBuffer
    BY <1>9, SentTyped DEF SendGap
  <2>2. /\ gaps' = gaps + 1 /\ phase' = "closed" /\ subscribed' \in BOOLEAN
        /\ UNCHANGED <<stored, oldest, start, fresh, replay, cursor, seen, excused, closes>>
    BY <1>9 DEF SendGap, GapTaken
  <2>4. TypeOK'
    BY <2>1, <2>2 DEF ServedInv, TypeOK
  <2>3. ~subscribed'
    BY <1>9 DEF SendGap
  <2> QED
    BY <2>3, <2>4 DEF ServedInv
<1>10. ASSUME Close PROVE ServedInv'
  <2>1. replay' \in Seq(Sequences) /\ queue' \in Seq(Sequences \cup {Gap}) /\ Len(queue') = 0
    BY <1>10, EmptyFacts DEF Close
  <2>2. closes' \in 0 .. MaxCloses
    BY <1>10 DEF Close, ServedInv, TypeOK
  <2>3. /\ phase' = "closed" /\ subscribed' \in BOOLEAN
        /\ UNCHANGED <<stored, oldest, start, fresh, cursor, seen, excused, gaps>>
    BY <1>10 DEF Close, client
  <2>4. TypeOK'
    BY <2>1, <2>2, <2>3 DEF ServedInv, TypeOK
  <2>5. ~subscribed'
    BY <1>10 DEF Close
  <2> QED
    BY <2>4, <2>5 DEF ServedInv
<1>11. ASSUME UNCHANGED vars PROVE ServedInv'
  BY <1>11 DEF vars, connection, client, ServedInv, TypeOK, GapWaits
<1> QED
  BY <1>1, <1>2, <1>3, <1>4, <1>5, <1>6, <1>7, <1>8, <1>9, <1>10, <1>11
     DEF Next, Reconnects, Streams

\* The variables keep their types, whatever goes wrong: no queue grows past SUBSCRIBER_BUFFER, the
\* gap frame _broadcast puts into a full one included.
THEOREM TypeCorrect == Safe => []TypeOK
<1>1. ServedInv => TypeOK
  BY DEF ServedInv
<1> QED
  BY <1>1, ServedInit, ServedNext, PTL DEF Safe
-----------------------------------------------------------------------------
(* What comes before an item.                                             *)

LEMMA BeforeOfTail ==
  ASSUME NEW S, NEW s \in Seq(S), s # <<>>, NEW i \in 1 .. Len(s) - 1
  PROVE  Before(s, i + 1) \subseteq {s[1]} \cup Before(Tail(s), i)
<1>1. ASSUME NEW j \in 1 .. i, j # 1 PROVE s[j] \in Before(Tail(s), i)
  <2>1. j - 1 \in 1 .. i - 1 /\ s[j] = Tail(s)[j - 1]
    BY <1>1, TailFacts
  <2> QED
    BY <2>1 DEF Before
<1> QED
  BY <1>1, TailFacts DEF Before

LEMMA BeforeOfAppend ==
  ASSUME NEW S, NEW s \in Seq(S), NEW e \in S
  PROVE  /\ \A i \in 1 .. Len(s) : Before(Append(s, e), i) = Before(s, i)
         /\ Before(Append(s, e), Len(s) + 1) = Items(s)
<1>1. ASSUME NEW i \in 1 .. Len(s) PROVE Before(Append(s, e), i) = Before(s, i)
  <2>1. \A j \in 1 .. i - 1 : Append(s, e)[j] = s[j]
    BY AppendFacts
  <2> QED
    BY <2>1 DEF Before
<1>2. Before(Append(s, e), Len(s) + 1) = Items(s)
  <2>1. \A j \in 1 .. Len(s) : Append(s, e)[j] = s[j]
    BY AppendFacts
  <2>2. DOMAIN s = 1 .. Len(s) /\ 1 .. Len(s) + 1 - 1 = 1 .. Len(s)
    BY SMT
  <2> QED
    BY <2>1, <2>2 DEF Before, Items
<1> QED
  BY <1>1, <1>2

LEMMA BeforeFirst == ASSUME NEW s PROVE Before(s, 1) = {}
BY DEF Before
-----------------------------------------------------------------------------
(* The inductive invariant, action by action.                             *)

LEMMA Typed ==
  ASSUME TypeOK
  PROVE  /\ DOMAIN queue = 1 .. Len(queue) /\ DOMAIN replay = 1 .. Len(replay)
         /\ Len(queue) \in Nat /\ Len(replay) \in Nat
         /\ \A i \in DOMAIN queue : queue[i] \in Nat
         /\ \A i \in DOMAIN replay : replay[i] \in Nat \ {0}
         /\ stored \in Nat /\ oldest \in Nat /\ start \in Nat /\ cursor \in Nat
         /\ seen \subseteq Nat /\ excused \subseteq Nat
<1>1. queue \in Seq(Sequences \cup {Gap}) /\ replay \in Seq(Sequences)
  BY DEF TypeOK
<1>2. Sequences \cup {Gap} \subseteq Nat /\ Sequences \subseteq Nat \ {0}
  BY StreamAssumption DEF Sequences, Gap
<1>3. \A i \in DOMAIN queue : queue[i] \in Nat
  BY <1>1, <1>2
<1>4. \A i \in DOMAIN replay : replay[i] \in Nat \ {0}
  BY <1>1, <1>2
<1> QED
  BY <1>1, <1>2, <1>3, <1>4, StreamAssumption DEF TypeOK

LEMMA IInvServed == ASSUME IInv PROVE ServedInv
BY DEF IInv, QueueInv, ServedInv

\* An event that is put into a queue with room comes after all the others.
LEMMA StoreWithRoom ==
  ASSUME Quiet, IInv, Store, subscribed, Len(queue) < SubscriberBuffer
  PROVE  QueueInv' /\ BehindInv' /\ AheadInv'
<1> DEFINE S == Sequences \cup {Gap}
<1>1. queue \in Seq(S) /\ stored + 1 \in S /\ stored + 1 # Gap /\ stored \in Nat
  BY Typed, StreamAssumption DEF IInv, TypeOK, Store, Sequences, Gap
<1>2. /\ queue' = Append(queue, stored + 1) /\ stored' = stored + 1
      /\ UNCHANGED <<subscribed, excused, oldest, phase, start, fresh, replay, cursor, seen>>
  BY DEF Store, Broadcast
<1>3. /\ queue' \in Seq(S) /\ Len(queue') = Len(queue) + 1
      /\ \A i \in 1 .. Len(queue) : queue'[i] = queue[i]
      /\ queue'[Len(queue) + 1] = stored + 1
      /\ Items(queue') = Items(queue) \cup {stored + 1}
      /\ \A i \in 1 .. Len(queue) : Before(queue', i) = Before(queue, i)
      /\ Before(queue', Len(queue) + 1) = Items(queue)
  BY <1>1, <1>2, AppendFacts, ItemsOfAppend, BeforeOfAppend
<1>4. DOMAIN queue' = 1 .. Len(queue) + 1 /\ DOMAIN queue = 1 .. Len(queue) /\ Len(queue) \in Nat
  BY <1>1, <1>3
<1>5. ~GapWaits /\ \A i \in 1 .. Len(queue) : queue[i] # Gap /\ queue[i] <= stored /\ queue[i] \in Nat
  BY <1>4, Typed DEF IInv, QueueInv, GapWaits, Items
<1>6. Had' = Had
  <2>1. CASE replay # <<>>
    BY <1>2, <2>1 DEF Had, NextUp
  <2>2. CASE replay = <<>> /\ queue # <<>>
    <3>1. queue' # <<>> /\ queue'[1] = queue[1]
      BY <1>1, <1>3, <2>2
    <3> QED
      BY <1>2, <2>2, <3>1 DEF Had, NextUp
  <2>3. CASE replay = <<>> /\ queue = <<>>
    <3>1. Len(queue) = 0
      BY <2>3
    <3>2. Len(queue') = 1 /\ queue'[1] = stored + 1
      BY <1>3, <3>1
    <3>3. queue' # <<>>
      BY <3>2, EmptyFacts
    <3> QED
      BY <1>2, <2>3, <3>2, <3>3 DEF Had, NextUp
  <2> QED
    BY <2>1, <2>2, <2>3
<1>7. QueueInv'
  <2>1. ~GapWaits'
    BY <1>1, <1>3, <1>5 DEF GapWaits
  <2>2. \A i \in DOMAIN queue' : queue'[i] <= stored' /\ queue'[i] # Gap
    BY <1>1, <1>2, <1>3, <1>4, <1>5
  <2>3. \A i, j \in DOMAIN queue' : i < j => queue'[i] < queue'[j]
    <3>1. TAKE i, j \in DOMAIN queue'
    <3>2. HAVE i < j
    <3>3. i \in 1 .. Len(queue) /\ queue'[i] = queue[i]
      BY <1>3, <1>4, <3>2
    <3>4. CASE j \in 1 .. Len(queue)
      BY <1>3, <1>4, <1>5, <3>2, <3>3, <3>4 DEF IInv, QueueInv
    <3>5. CASE j = Len(queue) + 1
      BY <1>1, <1>3, <1>5, <3>3, <3>5
    <3> QED
      BY <1>4, <3>4, <3>5
  <2> QED
    BY <2>1, <2>2, <2>3 DEF QueueInv
<1>8. BehindInv'
  <2> SUFFICES ASSUME phase = "subscribed", fresh
               PROVE  /\ \A i \in DOMAIN queue' :
                           1 .. queue'[i] - 1
                             \subseteq 1 .. start + FreshTail \cup excused \cup Before(queue', i)
                      /\ 1 .. stored' \subseteq 1 .. start + FreshTail \cup excused \cup Items(queue')
    BY <1>2 DEF BehindInv
  <2>1. /\ \A i \in DOMAIN queue :
             1 .. queue[i] - 1 \subseteq 1 .. start + FreshTail \cup excused \cup Before(queue, i)
        /\ 1 .. stored \subseteq 1 .. start + FreshTail \cup excused \cup Items(queue)
    BY <1>4, <1>5 DEF IInv, BehindInv
  <2>2. 1 .. stored' \subseteq 1 .. stored \cup {stored + 1}
    BY <1>1, <1>2
  <2>3. ASSUME NEW i \in DOMAIN queue'
        PROVE  1 .. queue'[i] - 1
                 \subseteq 1 .. start + FreshTail \cup excused \cup Before(queue', i)
    <3>1. CASE i \in 1 .. Len(queue)
      BY <1>3, <1>4, <2>1, <3>1
    <3>2. CASE i = Len(queue) + 1
      BY <1>1, <1>3, <2>1, <3>2
    <3> QED
      BY <1>4, <2>3, <3>1, <3>2
  <2> QED
    BY <1>3, <2>1, <2>2, <2>3
<1>9. AheadInv'
  <2> SUFFICES ASSUME phase = "sending"
               PROVE  /\ \A i \in DOMAIN replay :
                           /\ replay[i] \in 1 .. stored'
                           /\ 1 .. replay[i] - 1 \subseteq Had \cup Before(replay, i)
                      /\ \A i \in DOMAIN queue' :
                           1 .. queue'[i] - 1 \subseteq Had \cup Items(replay) \cup Before(queue', i)
                      /\ 1 .. stored' \subseteq Had \cup Items(replay) \cup Items(queue')
    BY <1>2, <1>6 DEF AheadInv
  <2>1. /\ \A i \in DOMAIN replay : replay[i] \in 1 .. stored
                                      /\ 1 .. replay[i] - 1 \subseteq Had \cup Before(replay, i)
        /\ \A i \in DOMAIN queue :
             1 .. queue[i] - 1 \subseteq Had \cup Items(replay) \cup Before(queue, i)
        /\ 1 .. stored \subseteq Had \cup Items(replay) \cup Items(queue)
    BY <1>4, <1>5 DEF IInv, AheadInv
  <2>2. 1 .. stored' = 1 .. stored \cup {stored + 1}
    BY <1>1, <1>2
  <2>3. ASSUME NEW i \in DOMAIN queue'
        PROVE  1 .. queue'[i] - 1 \subseteq Had \cup Items(replay) \cup Before(queue', i)
    <3>1. CASE i \in 1 .. Len(queue)
      BY <1>3, <1>4, <2>1, <3>1
    <3>2. CASE i = Len(queue) + 1
      BY <1>1, <1>3, <2>1, <3>2
    <3> QED
      BY <1>4, <2>3, <3>1, <3>2
  <2> QED
    BY <1>3, <2>1, <2>2, <2>3
<1> QED
  BY <1>7, <1>8, <1>9

\* A full queue loses its first event, which is excused: the others are in front as before.
LEMMA StoreWithoutRoom ==
  ASSUME Quiet, IInv, Store, subscribed, ~(Len(queue) < SubscriberBuffer)
  PROVE  /\ QueueInv' /\ BehindInv' /\ AheadInv'
         /\ queue # <<>> /\ queue[1] \in 1 .. stored /\ excused' = excused \cup {queue[1]}
         /\ ~GapWaits /\ GapWaits'
<1> DEFINE S == Sequences \cup {Gap}
           first == queue[1]
           rest == Tail(queue)
<1>1. queue \in Seq(S) /\ stored \in Nat /\ Gap \in S
  BY Typed, StreamAssumption DEF IInv, TypeOK
<1>2. queue # <<>>
  BY <1>1, StreamAssumption
<1>3. /\ rest \in Seq(S) /\ Len(rest) = Len(queue) - 1 /\ Head(queue) = first
      /\ \A i \in 1 .. Len(queue) - 1 : rest[i] = queue[i + 1]
      /\ \A i \in 1 .. Len(queue) - 1 : Before(queue, i + 1) \subseteq {first} \cup Before(rest, i)
      /\ Len(queue) \in Nat \ {0}
  BY <1>1, <1>2, TailFacts, BeforeOfTail
<1>4. /\ queue' = Append(rest, Gap) /\ stored' = stored + 1 /\ ~subscribed'
      /\ excused' = excused \cup {first}
      /\ UNCHANGED <<oldest, phase, start, fresh, replay, cursor, seen>>
  BY <1>3 DEF Store, Broadcast
<1> HIDE DEF S
<1>5. /\ queue' \in Seq(S) /\ Len(queue') = Len(queue)
      /\ \A i \in 1 .. Len(queue) - 1 : queue'[i] = queue[i + 1]
      /\ queue'[Len(queue)] = Gap
      /\ Items(queue') = Items(rest) \cup {Gap}
      /\ \A i \in 1 .. Len(queue) - 1 : Before(queue', i) = Before(rest, i)
  <2> HIDE DEF rest
  <2>1. /\ queue' \in Seq(S) /\ Len(queue') = Len(rest) + 1
        /\ \A i \in 1 .. Len(rest) : queue'[i] = rest[i]
        /\ queue'[Len(rest) + 1] = Gap
        /\ Items(queue') = Items(rest) \cup {Gap}
        /\ \A i \in 1 .. Len(rest) : Before(queue', i) = Before(rest, i)
    BY <1>1, <1>3, <1>4, AppendFacts, ItemsOfAppend, BeforeOfAppend
  <2> QED
    BY <1>3, <2>1
<1>6. DOMAIN queue' = 1 .. Len(queue) /\ DOMAIN queue = 1 .. Len(queue)
  BY <1>1, <1>5
<1>7. ~GapWaits /\ \A i \in 1 .. Len(queue) : queue[i] # Gap /\ queue[i] <= stored /\ queue[i] \in Nat
  BY <1>6, Typed DEF IInv, QueueInv, GapWaits, Items
<1>8. \A i, j \in 1 .. Len(queue) : i < j => queue[i] < queue[j]
  BY <1>6, <1>7 DEF IInv, QueueInv
<1>9. GapWaits' /\ first \in 1 .. stored
  BY <1>1, <1>3, <1>5, <1>7 DEF GapWaits, Gap
<1>10. QueueInv'
  <2>1. \A i \in DOMAIN queue' : queue'[i] <= stored' /\ (queue'[i] = Gap => i = Len(queue'))
    <3>1. TAKE i \in DOMAIN queue'
    <3>2. CASE i = Len(queue)
      BY <1>1, <1>4, <1>5, <3>2 DEF Gap
    <3>3. CASE i \in 1 .. Len(queue) - 1
      BY <1>1, <1>3, <1>4, <1>5, <1>7, <3>3
    <3> QED
      BY <1>3, <1>6, <3>2, <3>3
  <2>2. \A i, j \in DOMAIN queue' : i < j /\ queue'[j] # Gap => queue'[i] < queue'[j]
    <3>1. TAKE i, j \in DOMAIN queue'
    <3>2. HAVE i < j /\ queue'[j] # Gap
    <3>3. i \in 1 .. Len(queue) - 1 /\ j \in 1 .. Len(queue) - 1
      BY <1>3, <1>5, <1>6, <3>2
    <3> QED
      BY <1>3, <1>5, <1>8, <3>2, <3>3
  <2> QED
    BY <1>4, <2>1, <2>2 DEF QueueInv
\* What one item of the queue has in front of it, in the new queue.
<1>11. ASSUME NEW i \in DOMAIN queue', queue'[i] # Gap
       PROVE  /\ i \in 1 .. Len(queue) - 1 /\ i + 1 \in DOMAIN queue
              /\ queue'[i] = queue[i + 1] /\ queue[i + 1] # Gap
              /\ Before(queue, i + 1) \subseteq {first} \cup Before(queue', i)
  <2>1. i \in 1 .. Len(queue) - 1
    BY <1>3, <1>5, <1>6, <1>11
  <2>2. i + 1 \in DOMAIN queue
    BY <1>3, <1>6, <2>1
  <2> QED
    BY <1>3, <1>5, <1>6, <1>7, <2>1, <2>2
<1>12. BehindInv'
  <2> SUFFICES ASSUME phase = "subscribed", fresh, NEW i \in DOMAIN queue', queue'[i] # Gap
               PROVE  1 .. queue'[i] - 1
                        \subseteq 1 .. start + FreshTail \cup excused' \cup Before(queue', i)
    BY <1>4 DEF BehindInv
  <2>1. 1 .. queue[i + 1] - 1
          \subseteq 1 .. start + FreshTail \cup excused \cup Before(queue, i + 1)
    BY <1>11 DEF IInv, BehindInv
  <2> QED
    BY <1>4, <1>11, <2>1
<1>13. AheadInv'
  <2> SUFFICES ASSUME phase = "sending"
               PROVE  /\ \A i \in DOMAIN replay :
                           /\ replay[i] \in 1 .. stored'
                           /\ 1 .. replay[i] - 1 \subseteq Had' \cup Before(replay, i)
                      /\ \A i \in DOMAIN queue' : queue'[i] # Gap =>
                           1 .. queue'[i] - 1 \subseteq Had' \cup Items(replay) \cup Before(queue', i)
    BY <1>4 DEF AheadInv
  <2>1. ASSUME replay # <<>> PROVE Had \cup {first} \subseteq Had'
    BY <1>4, <2>1 DEF Had, NextUp
  <2>2. ASSUME NEW i \in DOMAIN replay
        PROVE  replay[i] \in 1 .. stored' /\ 1 .. replay[i] - 1 \subseteq Had' \cup Before(replay, i)
    <3>1. replay # <<>>
      BY <2>2
    <3>2. replay[i] \in 1 .. stored /\ 1 .. replay[i] - 1 \subseteq Had \cup Before(replay, i)
      BY <2>2 DEF IInv, AheadInv
    <3> QED
      BY <1>1, <1>4, <2>1, <3>1, <3>2
  <2>3. ASSUME NEW i \in DOMAIN queue', queue'[i] # Gap
        PROVE  1 .. queue'[i] - 1 \subseteq Had' \cup Items(replay) \cup Before(queue', i)
    <3>1. 1 .. queue[i + 1] - 1 \subseteq Had \cup Items(replay) \cup Before(queue, i + 1)
      BY <1>11, <2>3 DEF IInv, AheadInv
    <3>2. Had \cup {first} \subseteq Had'
      <4>1. CASE replay = <<>>
        <5>1. queue' # <<>> /\ queue'[1] = queue[2] /\ first < queue[2] /\ queue[2] \in Nat
          BY <1>3, <1>5, <1>7, <1>8, <1>11, <2>3
        <5>2. NextUp = first /\ NextUp' = queue[2]
          BY <1>2, <1>4, <4>1, <5>1 DEF NextUp
        <5>3. 1 .. first - 1 \subseteq 1 .. queue[2] - 1
          BY <1>9, <5>1
        <5> QED
          BY <1>4, <5>2, <5>3 DEF Had
      <4> QED
        BY <2>1, <4>1
    <3> QED
      BY <1>11, <2>3, <3>1, <3>2
  <2> QED
    BY <2>2, <2>3
<1> QED
  BY <1>2, <1>4, <1>7, <1>9, <1>10, <1>12, <1>13

\* An event nobody is served changes no queue.
LEMMA StoreUnserved ==
  ASSUME Quiet, IInv, Store, ~subscribed
  PROVE  /\ QueueInv' /\ BehindInv' /\ AheadInv'
         /\ UNCHANGED <<queue, subscribed, excused>>
<1>1. /\ stored' = stored + 1
      /\ UNCHANGED <<queue, subscribed, excused, oldest, phase, start, fresh, replay, cursor, seen>>
  BY DEF Store, Broadcast
<1>2. stored \in Nat /\ \A i \in DOMAIN queue : queue[i] \in Nat
  BY Typed DEF IInv
<1>3. Had \subseteq Had'
  <2>1. NextUp' = NextUp \/ (NextUp = stored + 1 /\ NextUp' = stored + 2)
    <3>1. CASE replay # <<>>
      BY <1>1, <3>1 DEF NextUp
    <3>2. CASE replay = <<>> /\ queue # <<>>
      BY <1>1, <3>2 DEF NextUp
    <3>3. CASE replay = <<>> /\ queue = <<>>
      BY <1>1, <1>2, <3>3 DEF NextUp
    <3> QED
      BY <3>1, <3>2, <3>3
  <2>2. ASSUME NextUp = stored + 1, NextUp' = stored + 2
        PROVE  1 .. NextUp - 1 \subseteq 1 .. NextUp' - 1
    BY <1>2, <2>2
  <2> QED
    BY <1>1, <2>1, <2>2 DEF Had
<1>4. QueueInv'
  BY <1>1, <1>2 DEF IInv, QueueInv, GapWaits
<1>5. BehindInv'
  BY <1>1 DEF IInv, BehindInv
<1>6. AheadInv'
  <2> SUFFICES ASSUME phase = "sending"
               PROVE  /\ \A i \in DOMAIN replay :
                           /\ replay[i] \in 1 .. stored'
                           /\ 1 .. replay[i] - 1 \subseteq Had' \cup Before(replay, i)
                      /\ \A i \in DOMAIN queue : queue[i] # Gap =>
                           1 .. queue[i] - 1 \subseteq Had' \cup Items(replay) \cup Before(queue, i)
    BY <1>1 DEF AheadInv
  <2>1. 1 .. stored \subseteq 1 .. stored'
    BY <1>1, <1>2
  <2> QED
    BY <1>3, <2>1 DEF IInv, AheadInv
<1> QED
  BY <1>1, <1>4, <1>5, <1>6

LEMMA StoreKeeps ==
  ASSUME Quiet, IInv, Store
  PROVE  (PhaseInv /\ QueueInv /\ ClientInv /\ BehindInv /\ AheadInv)'
<1>1. /\ QueueInv' /\ BehindInv' /\ AheadInv'
      /\ excused' = excused \/ \E e \in 1 .. stored : excused' = excused \cup {e}
      /\ phase \in {"closed", "answered"} => UNCHANGED <<queue, subscribed>>
  <2>1. CASE ~subscribed
    BY <2>1, StoreUnserved
  <2>2. CASE subscribed /\ Len(queue) < SubscriberBuffer
    BY <2>2, StoreWithRoom DEF Store, Broadcast, IInv, PhaseInv
  <2>3. CASE subscribed /\ ~(Len(queue) < SubscriberBuffer)
    BY <2>3, StoreWithoutRoom DEF IInv, PhaseInv
  <2> QED
    BY <2>1, <2>2, <2>3
<1>2. stored' = stored + 1 /\ UNCHANGED <<oldest, phase, start, fresh, replay, cursor, seen>>
  BY DEF Store
<1>3. /\ stored \in Nat /\ oldest \in Nat /\ start \in Nat /\ cursor \in Nat
      /\ seen \subseteq Nat /\ excused \subseteq Nat
  BY Typed DEF IInv
<1>4. phase = "answered" => ~fresh
  BY DEF Store, Quiet
<1>5. PhaseInv'
  BY <1>1, <1>2, <1>3, <1>4 DEF IInv, PhaseInv, Larger
<1>6. ClientInv'
  BY <1>1, <1>2, <1>3 DEF IInv, ClientInv
<1> QED
  BY <1>1, <1>5, <1>6

LEMMA PruneKeeps ==
  ASSUME Quiet, IInv, Prune
  PROVE  (PhaseInv /\ QueueInv /\ ClientInv /\ BehindInv /\ AheadInv)'
<1>1. /\ oldest' \in Nat /\ stored \in Nat /\ oldest' <= stored
      /\ phase \notin {"answered", "subscribed"}
      /\ UNCHANGED <<stored, phase, start, fresh, replay, queue, subscribed, cursor, seen, excused>>
  BY Typed DEF Prune, Quiet, IInv, connection, client
<1>2. PhaseInv'
  BY <1>1 DEF IInv, PhaseInv, Larger
<1>3. QueueInv'
  BY <1>1 DEF IInv, QueueInv, GapWaits
<1>4. ClientInv' /\ BehindInv'
  BY <1>1 DEF IInv, ClientInv, BehindInv
<1>5. AheadInv'
  BY <1>1 DEF IInv, AheadInv, Had, NextUp
<1> QED
  BY <1>2, <1>3, <1>4, <1>5

\* A connection begins: the client's cursor says from where, or the newest sequence does.
LEMMA ConnectKeeps ==
  ASSUME Quiet, IInv, Connect
  PROVE  (PhaseInv /\ QueueInv /\ ClientInv /\ BehindInv /\ AheadInv)'
<1>1. /\ phase = "closed" /\ phase' = "answered" /\ fresh' = (cursor = 0)
      /\ start' = (IF cursor = 0 THEN Larger(0, stored - FreshTail) ELSE cursor)
      /\ cursor # 0 => cursor >= oldest - 1
      /\ UNCHANGED <<stored, oldest, replay, queue, subscribed, cursor, seen, excused>>
  BY DEF Connect, ResumePoint, client
<1>2. /\ stored \in Nat /\ oldest \in Nat /\ cursor \in Nat /\ FreshTail \in Nat \ {0}
      /\ replay = <<>> /\ queue = <<>> /\ ~subscribed /\ oldest <= Larger(stored, 1)
  BY <1>1, Typed, StreamAssumption DEF IInv, PhaseInv
<1>3. PhaseInv'
  <2>1. CASE cursor = 0
    <3>1. fresh'
      BY <1>1, <2>1
    <3>2. start' = Larger(0, stored - FreshTail)
      BY <1>1, <2>1
    <3>3. start' < Larger(stored, 1) /\ stored <= start' + FreshTail
      BY <1>2, <3>2 DEF Larger
    <3> QED
      BY <1>1, <1>2, <2>1, <3>1, <3>3 DEF PhaseInv
  <2>2. CASE cursor # 0
    <3>1. ~fresh'
      BY <1>1, <2>2
    <3>2. start' = cursor /\ oldest <= cursor + 1
      BY <1>1, <1>2, <2>2
    <3> QED
      BY <1>1, <1>2, <2>2, <3>1, <3>2 DEF PhaseInv
  <2> QED
    BY <2>1, <2>2
<1>4. QueueInv'
  BY <1>1 DEF IInv, QueueInv, GapWaits
<1>5. ClientInv' /\ BehindInv' /\ AheadInv'
  BY <1>1 DEF IInv, ClientInv, BehindInv, AheadInv
<1> QED
  BY <1>3, <1>4, <1>5

LEMMA ExpiredKeeps ==
  ASSUME IInv, Expired
  PROVE  (PhaseInv /\ QueueInv /\ ClientInv /\ BehindInv /\ AheadInv)'
<1>1. /\ phase = "closed" /\ cursor' = 0
      /\ UNCHANGED <<stored, oldest, phase, start, fresh, replay, queue, subscribed, seen, excused>>
  BY DEF Expired, connection
<1>2. stored \in Nat
  BY Typed DEF IInv
<1>3. PhaseInv' /\ BehindInv' /\ AheadInv'
  BY <1>1 DEF IInv, PhaseInv, BehindInv, AheadInv
<1>4. QueueInv'
  BY <1>1 DEF IInv, QueueInv, GapWaits
<1>5. ClientInv'
  BY <1>1, <1>2 DEF IInv, ClientInv
<1> QED
  BY <1>3, <1>4, <1>5

LEMMA SubscribeKeeps ==
  ASSUME Quiet, IInv, Subscribe
  PROVE  (PhaseInv /\ QueueInv /\ ClientInv /\ BehindInv /\ AheadInv)'
<1>1. /\ phase = "answered" /\ phase' = "subscribed" /\ subscribed' = TRUE /\ queue' = <<>>
      /\ UNCHANGED <<stored, oldest, start, fresh, replay, cursor, seen, excused>>
  BY DEF Subscribe, client
<1>2. DOMAIN queue' = {} /\ Items(queue') = {}
  BY <1>1 DEF Items
<1>3. PhaseInv' /\ ClientInv' /\ AheadInv'
  BY <1>1 DEF IInv, PhaseInv, ClientInv, AheadInv
<1>4. QueueInv'
  BY <1>2 DEF QueueInv, GapWaits
<1>5. BehindInv'
  <2>1. stored \in Nat /\ start \in Nat /\ FreshTail \in Nat
    BY Typed, StreamAssumption DEF IInv
  <2>2. fresh => stored <= start + FreshTail
    BY <1>1 DEF IInv, PhaseInv
  <2> QED
    BY <1>1, <1>2, <2>1, <2>2 DEF BehindInv
<1> QED
  BY <1>3, <1>4, <1>5

\* What a replay holds: everything from where the client resumes to the newest event, or to the
\* end of the tail a new client is given.
LEMMA ReplayReads ==
  ASSUME Quiet, IInv, Replay,
         NEW first, first = Larger(start + 1, oldest),
         NEW last, last = Smaller(stored, first + (IF fresh THEN FreshTail ELSE ResumeLimit) - 1)
  PROVE  /\ first \in Nat \ {0} /\ last \in Nat /\ last <= stored
         /\ DOMAIN replay' = 1 .. last - first + 1
         /\ \A i \in 1 .. last - first + 1 : replay'[i] = first + i - 1
         /\ \A i \in 1 .. last - first + 1 : Before(replay', i) = first .. first + i - 2
         /\ Items(replay') = first .. last
<1>1. replay' = [i \in 1 .. last - first + 1 |-> first + i - 1]
  BY DEF Replay
<1>2. /\ start \in Nat /\ oldest \in Nat /\ stored \in Nat
      /\ FreshTail \in Nat \ {0} /\ ResumeLimit \in Nat \ {0}
  BY Typed, StreamAssumption DEF IInv
<1>3. first \in Nat \ {0} /\ last \in Nat /\ last <= stored
  BY <1>2 DEF Larger, Smaller
<1>4. \A i \in 1 .. last - first + 1 : Before(replay', i) = first .. first + i - 2
  <2>1. TAKE i \in 1 .. last - first + 1
  <2>2. \A j \in 1 .. i - 1 : replay'[j] = first + j - 1
    BY <1>1, <1>3
  <2>3. \A e \in first .. first + i - 2 : e - first + 1 \in 1 .. i - 1
    BY <1>3
  <2>4. \A e \in first .. first + i - 2 : e = replay'[e - first + 1]
    BY <1>3, <2>2, <2>3
  <2>5. \A j \in 1 .. i - 1 : replay'[j] \in first .. first + i - 2
    BY <1>3, <2>2
  <2> QED
    BY <2>3, <2>4, <2>5 DEF Before
<1>5. Items(replay') = first .. last
  <2>1. \A e \in first .. last : e - first + 1 \in 1 .. last - first + 1
    BY <1>3
  <2>2. \A e \in first .. last : e = replay'[e - first + 1]
    BY <1>1, <1>3, <2>1
  <2>3. \A j \in 1 .. last - first + 1 : replay'[j] \in first .. last
    BY <1>1, <1>3
  <2>4. DOMAIN replay' = 1 .. last - first + 1
    BY <1>1
  <2> QED
    BY <2>1, <2>2, <2>3, <2>4 DEF Items
<1> QED
  BY <1>1, <1>3, <1>4, <1>5

LEMMA ReplayKeeps ==
  ASSUME Quiet, IInv, Replay
  PROVE  (PhaseInv /\ QueueInv /\ ClientInv /\ BehindInv /\ AheadInv)'
<1> DEFINE first == Larger(start + 1, oldest)
           last == Smaller(stored, first + (IF fresh THEN FreshTail ELSE ResumeLimit) - 1)
<1>1. /\ phase = "subscribed" /\ phase' = "sending"
      /\ UNCHANGED <<stored, oldest, start, fresh, queue, subscribed, cursor, seen, excused>>
  BY DEF Replay, client
<1>2. /\ start \in Nat /\ oldest \in Nat /\ stored \in Nat /\ cursor \in Nat
      /\ FreshTail \in Nat \ {0} /\ ResumeLimit \in Nat \ {0} /\ ResumeLimit >= MaxEvents
      /\ MaxEvents \in Nat /\ stored <= MaxEvents
      /\ \A i \in DOMAIN queue : queue[i] \in Nat /\ queue[i] <= stored
  BY Typed, StreamAssumption DEF IInv, TypeOK, Quiet, QueueInv
<1>3. /\ first \in Nat \ {0} /\ last \in Nat /\ last <= stored
      /\ DOMAIN replay' = 1 .. last - first + 1
      /\ \A i \in 1 .. last - first + 1 : replay'[i] = first + i - 1
      /\ \A i \in 1 .. last - first + 1 : Before(replay', i) = first .. first + i - 2
      /\ Items(replay') = first .. last
  BY ReplayReads
<1>4. PhaseInv' /\ ClientInv' /\ BehindInv'
  BY <1>1 DEF IInv, PhaseInv, ClientInv, BehindInv
<1>5. QueueInv'
  BY <1>1 DEF IInv, QueueInv, GapWaits
<1>6. 1 .. first - 1 \subseteq Had'
  <2>1. CASE ~fresh
    <3>1. first = cursor + 1 /\ 1 .. cursor \subseteq seen \cup excused
      BY <1>1, <1>2, <2>1 DEF IInv, PhaseInv, ClientInv, Larger
    <3>2. 1 .. first - 1 = 1 .. cursor
      BY <1>2, <3>1
    <3> QED
      BY <1>1, <3>1, <3>2 DEF Had
  <2>2. CASE fresh
    <3>1. cursor = 0 /\ start < Larger(stored, 1) /\ oldest <= Larger(stored, 1)
      BY <1>1, <2>2 DEF IInv, PhaseInv
    <3>2. CASE stored = 0
      BY <1>2, <3>1, <3>2 DEF Larger
    <3>3. CASE stored # 0
      <4>1. first <= last
        BY <1>2, <2>2, <3>1, <3>3 DEF Larger, Smaller
      <4>2. 1 \in DOMAIN replay' /\ replay'[1] = first
        BY <1>3, <4>1
      <4>3. replay' # <<>>
        BY <4>2
      <4> QED
        BY <1>1, <3>1, <4>2, <4>3 DEF Had, NextUp
    <3> QED
      BY <3>2, <3>3
  <2> QED
    BY <2>1, <2>2
<1>7. ASSUME ~fresh PROVE last = stored
  BY <1>1, <1>2, <1>7 DEF IInv, PhaseInv, Larger, Smaller
<1>8. ASSUME fresh PROVE 1 .. start + FreshTail \cap 1 .. stored \subseteq 1 .. last
  BY <1>2, <1>8 DEF Larger, Smaller
<1> HIDE DEF first, last
<1>9. 1 .. last \subseteq Had' \cup Items(replay')
  <2>1. 1 .. last \subseteq 1 .. first - 1 \cup first .. last
    BY <1>3
  <2> QED
    BY <1>3, <1>6, <2>1
<1>10. excused \subseteq Had'
  BY <1>1 DEF Had
<1>11. ASSUME NEW i \in DOMAIN replay'
       PROVE  replay'[i] \in 1 .. stored /\ 1 .. replay'[i] - 1 \subseteq Had' \cup Before(replay', i)
  <2>1. /\ i \in 1 .. last - first + 1 /\ replay'[i] = first + i - 1
        /\ Before(replay', i) = first .. first + i - 2
    BY <1>3, <1>11
  <2>2. 1 .. first + i - 2 \subseteq 1 .. first - 1 \cup first .. first + i - 2
    BY <1>3, <2>1
  <2>3. replay'[i] - 1 = first + i - 2 /\ replay'[i] \in 1 .. stored
    BY <1>2, <1>3, <2>1
  <2>4. 1 .. first + i - 2 \subseteq Had' \cup Before(replay', i)
    BY <1>6, <2>1, <2>2
  <2> QED
    BY <2>3, <2>4
<1>12. ASSUME NEW i \in DOMAIN queue, queue[i] # Gap
       PROVE  1 .. queue[i] - 1 \subseteq Had' \cup Items(replay') \cup Before(queue, i)
  <2>1. 1 .. queue[i] - 1 \subseteq 1 .. stored
    BY <1>2, <1>12
  <2>2. CASE ~fresh
    BY <1>7, <1>9, <2>1, <2>2
  <2>3. CASE fresh
    <3>1. 1 .. queue[i] - 1 \subseteq 1 .. start + FreshTail \cup excused \cup Before(queue, i)
      BY <1>1, <1>12, <2>3 DEF IInv, BehindInv
    <3> QED
      BY <1>8, <1>9, <1>10, <2>1, <2>3, <3>1
  <2> QED
    BY <2>2, <2>3
<1>13. ASSUME subscribed
       PROVE  1 .. stored \subseteq Had' \cup Items(replay') \cup Items(queue)
  <2>1. CASE ~fresh
    BY <1>7, <1>9, <2>1
  <2>2. CASE fresh
    <3>1. 1 .. stored \subseteq 1 .. start + FreshTail \cup excused \cup Items(queue)
      BY <1>1, <1>13, <2>2 DEF IInv, BehindInv
    <3> QED
      BY <1>8, <1>9, <1>10, <2>2, <3>1
  <2> QED
    BY <2>1, <2>2
<1>14. AheadInv'
  BY <1>1, <1>11, <1>12, <1>13 DEF AheadInv
<1> QED
  BY <1>4, <1>5, <1>14

\* An event the client takes is one more that it has; it stays a client that follows the feed.
LEMMA ReceivedHad ==
  ASSUME TypeOK, NEW e \in Nat \ {0}, e = NextUp, Received(e)
  PROVE  Had' = Had \cup {e}
<1>1. /\ cursor' # 0 /\ seen' = seen \cup {e}
      /\ excused' = IF cursor = 0 THEN excused \cup 1 .. e - 1 ELSE excused
  BY DEF Received
<1>2. CASE cursor = 0
  BY <1>1, <1>2 DEF Had
<1>3. CASE cursor # 0
  BY <1>1, <1>3 DEF Had
<1> QED
  BY <1>2, <1>3

LEMMA ReceivedClient ==
  ASSUME IInv, NEW e \in 1 .. stored, e = NextUp, 1 .. e - 1 \subseteq Had,
         Received(e), UNCHANGED stored
  PROVE  ClientInv'
<1>1. stored \in Nat /\ cursor \in Nat /\ seen \subseteq Nat /\ excused \subseteq Nat /\ e \in Nat \ {0}
  BY Typed DEF IInv
<1>2. Had' = Had \cup {e} /\ cursor' = e /\ cursor' # 0 /\ seen' = seen \cup {e}
  BY <1>1, ReceivedHad DEF IInv, Received
<1>3. seen' \cup excused' = Had \cup {e} /\ seen \cup excused \subseteq seen' \cup excused'
  BY <1>2 DEF Had
<1>4. 1 .. e \subseteq seen' \cup excused'
  <2>1. 1 .. e \subseteq 1 .. e - 1 \cup {e}
    BY <1>1
  <2> QED
    BY <1>3, <2>1
<1>5. \A f \in seen' \cup excused' : f <= stored
  BY <1>1, <1>2 DEF IInv, ClientInv, Received
<1>6. \A f \in seen' : 1 .. f \subseteq seen' \cup excused'
  BY <1>2, <1>3, <1>4 DEF IInv, ClientInv
<1> QED
  BY <1>1, <1>2, <1>4, <1>5, <1>6 DEF ClientInv

LEMMA SendReplayedKeeps ==
  ASSUME Quiet, IInv, SendReplayed
  PROVE  /\ (PhaseInv /\ QueueInv /\ ClientInv /\ BehindInv /\ AheadInv)'
         /\ replay[1] \in 1 .. stored /\ 1 .. replay[1] - 1 \subseteq Had /\ NextUp = replay[1]
         /\ Received(replay[1]) /\ UNCHANGED <<stored, gaps, queue>>
<1> DEFINE e == replay[1]
<1>1. replay \in Seq(Sequences) /\ replay # <<>>
  BY DEF IInv, TypeOK, SendReplayed
<1>2. /\ Head(replay) = e /\ Len(replay) \in Nat \ {0}
      /\ Tail(replay) \in Seq(Sequences) /\ Len(Tail(replay)) = Len(replay) - 1
      /\ \A i \in 1 .. Len(replay) - 1 : Tail(replay)[i] = replay[i + 1]
      /\ \A i \in 1 .. Len(replay) - 1 :
           Before(replay, i + 1) \subseteq {e} \cup Before(Tail(replay), i)
      /\ Items(replay) = {e} \cup Items(Tail(replay))
      /\ DOMAIN replay = 1 .. Len(replay)
  BY <1>1, TailFacts, BeforeOfTail, ItemsOfTail
<1>3. /\ phase = "sending" /\ replay' = Tail(replay) /\ Received(e)
      /\ UNCHANGED <<stored, oldest, phase, start, fresh, queue, subscribed, gaps>>
  BY <1>2 DEF SendReplayed
<1>4. e \in 1 .. stored /\ 1 .. e - 1 \subseteq Had /\ NextUp = e
  <2>1. e \in 1 .. stored /\ 1 .. e - 1 \subseteq Had \cup Before(replay, 1)
    BY <1>2, <1>3 DEF IInv, AheadInv
  <2> QED
    BY <1>1, <2>1, BeforeFirst DEF NextUp
<1>5. ClientInv'
  BY <1>3, <1>4, ReceivedClient
<1>6. Had' = Had \cup {e}
  BY <1>3, <1>4, Typed, ReceivedHad DEF IInv
<1>7. PhaseInv' /\ BehindInv'
  BY <1>3 DEF IInv, PhaseInv, BehindInv
<1>8. QueueInv'
  BY <1>3 DEF IInv, QueueInv, GapWaits
<1> HIDE DEF e
<1>9. ASSUME NEW i \in DOMAIN replay'
      PROVE  replay'[i] \in 1 .. stored /\ 1 .. replay'[i] - 1 \subseteq Had' \cup Before(replay', i)
  <2>1. i \in 1 .. Len(replay) - 1 /\ i + 1 \in DOMAIN replay /\ replay'[i] = replay[i + 1]
    BY <1>2, <1>3, <1>9
  <2>2. /\ replay[i + 1] \in 1 .. stored
        /\ 1 .. replay[i + 1] - 1 \subseteq Had \cup Before(replay, i + 1)
    BY <1>3, <2>1 DEF IInv, AheadInv
  <2> QED
    BY <1>2, <1>3, <1>6, <2>1, <2>2
<1>10. AheadInv'
  BY <1>2, <1>3, <1>6, <1>9 DEF IInv, AheadInv
<1> QED
  BY <1>3, <1>4, <1>5, <1>7, <1>8, <1>10 DEF e

LEMMA SendQueuedKeeps ==
  ASSUME Quiet, IInv, SendQueued
  PROVE  /\ (PhaseInv /\ QueueInv /\ ClientInv /\ BehindInv /\ AheadInv)'
         /\ queue[1] \in 1 .. stored /\ 1 .. queue[1] - 1 \subseteq Had /\ NextUp = queue[1]
         /\ Received(queue[1]) /\ UNCHANGED <<stored, gaps>> /\ GapWaits' = GapWaits
<1> DEFINE S == Sequences \cup {Gap}
           e == queue[1]
           rest == Tail(queue)
<1>1. queue \in Seq(S) /\ queue # <<>> /\ replay = <<>> /\ Items(replay) = {}
  BY EmptyFacts DEF IInv, TypeOK, SendQueued
<1>2. /\ Head(queue) = e /\ Len(queue) \in Nat \ {0}
      /\ rest \in Seq(S) /\ Len(rest) = Len(queue) - 1
      /\ \A i \in 1 .. Len(queue) - 1 : rest[i] = queue[i + 1]
      /\ \A i \in 1 .. Len(queue) - 1 : Before(queue, i + 1) \subseteq {e} \cup Before(rest, i)
      /\ Items(queue) = {e} \cup Items(rest)
      /\ DOMAIN queue = 1 .. Len(queue) /\ DOMAIN rest = 1 .. Len(queue) - 1
  BY <1>1, TailFacts, BeforeOfTail, ItemsOfTail
<1>3. /\ phase = "sending" /\ queue' = rest /\ Received(e) /\ e # Gap
      /\ UNCHANGED <<stored, oldest, phase, start, fresh, replay, subscribed, gaps>>
  BY <1>2 DEF SendQueued
<1>4. e \in 1 .. stored /\ 1 .. e - 1 \subseteq Had /\ NextUp = e
  <2>1. e <= stored /\ 1 .. e - 1 \subseteq Had \cup Items(replay) \cup Before(queue, 1)
    BY <1>2, <1>3 DEF IInv, AheadInv, QueueInv
  <2>2. e \in Nat /\ stored \in Nat
    BY <1>2, Typed DEF IInv
  <2> QED
    BY <1>1, <1>3, <2>1, <2>2, BeforeFirst DEF NextUp, Gap
<1>5. ClientInv'
  BY <1>3, <1>4, ReceivedClient
<1>6. Had' = Had \cup {e}
  BY <1>3, <1>4, Typed, ReceivedHad DEF IInv
<1>7. PhaseInv' /\ BehindInv'
  BY <1>3 DEF IInv, PhaseInv, BehindInv
<1>8. GapWaits' = GapWaits
  BY <1>2, <1>3 DEF GapWaits
<1> HIDE DEF e, rest
\* What an item that is left is in the old queue.
<1>9. ASSUME NEW i \in DOMAIN queue'
      PROVE  /\ i \in 1 .. Len(queue) - 1 /\ i + 1 \in DOMAIN queue /\ queue'[i] = queue[i + 1]
             /\ Before(queue, i + 1) \subseteq {e} \cup Before(queue', i)
  BY <1>2, <1>3, <1>9
<1>10. QueueInv'
  <2>1. \A i \in DOMAIN queue' : queue'[i] <= stored' /\ (queue'[i] = Gap => i = Len(queue'))
    BY <1>2, <1>3, <1>9 DEF IInv, QueueInv
  <2>2. \A i, j \in DOMAIN queue' : i < j /\ queue'[j] # Gap => queue'[i] < queue'[j]
    <3>1. TAKE i, j \in DOMAIN queue'
    <3>2. HAVE i < j /\ queue'[j] # Gap
    <3>3. i + 1 \in DOMAIN queue /\ j + 1 \in DOMAIN queue /\ i + 1 < j + 1
      BY <1>9, <3>2
    <3>4. queue'[i] = queue[i + 1] /\ queue'[j] = queue[j + 1]
      BY <1>9
    <3> QED
      BY <3>2, <3>3, <3>4 DEF IInv, QueueInv
  <2>3. subscribed' => ~GapWaits'
    BY <1>3, <1>8 DEF IInv, QueueInv
  <2> QED
    BY <2>1, <2>2, <2>3 DEF QueueInv
<1>11. ASSUME NEW i \in DOMAIN queue', queue'[i] # Gap
       PROVE  1 .. queue'[i] - 1 \subseteq Had' \cup Items(replay') \cup Before(queue', i)
  <2>1. 1 .. queue[i + 1] - 1 \subseteq Had \cup Items(replay) \cup Before(queue, i + 1)
    BY <1>3, <1>9, <1>11 DEF IInv, AheadInv
  <2> QED
    BY <1>1, <1>6, <1>9, <1>11, <2>1
<1>12. AheadInv'
  <2>1. DOMAIN replay' = {}
    BY <1>1, <1>3
  <2> QED
    BY <1>1, <1>2, <1>3, <1>6, <1>11, <2>1 DEF IInv, AheadInv
<1> QED
  BY <1>3, <1>4, <1>5, <1>7, <1>8, <1>10, <1>12 DEF e

\* A gap frame is the last, so that nothing is left when the stream ends.
LEMMA SendGapKeeps ==
  ASSUME Quiet, IInv, SendGap
  PROVE  /\ (PhaseInv /\ QueueInv /\ ClientInv /\ BehindInv /\ AheadInv)'
         /\ GapWaits /\ ~GapWaits' /\ gaps' = gaps + 1
         /\ UNCHANGED <<stored, cursor, seen, excused>>
<1>1. queue \in Seq(Sequences \cup {Gap}) /\ queue # <<>>
  BY DEF IInv, TypeOK, SendGap
<1>2. Head(queue) = queue[1] /\ Len(queue) \in Nat \ {0} /\ Len(Tail(queue)) = Len(queue) - 1
  BY <1>1, TailFacts
<1>3. /\ phase' = "closed" /\ replay = <<>> /\ queue[1] = Gap /\ queue' = Tail(queue) /\ ~subscribed'
      /\ gaps' = gaps + 1
      /\ UNCHANGED <<stored, oldest, start, fresh, replay, cursor, seen, excused>>
  BY <1>2 DEF SendGap, GapTaken
<1>4. 1 \in DOMAIN queue /\ Len(queue) = 1
  BY <1>2, <1>3, 1 \in 1 .. Len(queue) DEF IInv, QueueInv
<1>5. queue' = <<>> /\ Items(queue') = {} /\ DOMAIN queue' = {}
  <2>1. Tail(queue) \in Seq(Sequences \cup {Gap}) /\ Len(Tail(queue)) = 0
    BY <1>1, <1>2, <1>4, TailFacts
  <2>2. Tail(queue) = <<>>
    BY <2>1, EmptySeq
  <2> QED
    BY <1>3, <2>2 DEF Items
<1>6. GapWaits /\ ~GapWaits'
  BY <1>3, <1>4, <1>5 DEF GapWaits, Items
<1>7. PhaseInv' /\ ClientInv' /\ BehindInv' /\ AheadInv'
  BY <1>3, <1>5 DEF IInv, PhaseInv, ClientInv, BehindInv, AheadInv
<1>8. QueueInv'
  BY <1>3, <1>5, <1>6 DEF QueueInv
<1> QED
  BY <1>3, <1>6, <1>7, <1>8

LEMMA CloseKeeps ==
  ASSUME Quiet, IInv, Close
  PROVE  /\ (PhaseInv /\ QueueInv /\ ClientInv /\ BehindInv /\ AheadInv)'
         /\ Faults = {} => ~GapWaits
         /\ ~GapWaits' /\ UNCHANGED <<stored, client>>
<1>1. /\ phase' = "closed" /\ replay' = <<>> /\ queue' = <<>> /\ ~subscribed'
      /\ GapWaits => "closed" \in Faults
      /\ UNCHANGED <<stored, oldest, start, fresh, client>>
  BY DEF Close
<1>2. Items(queue') = {} /\ DOMAIN queue' = {}
  BY <1>1, EmptyFacts
<1>3. PhaseInv' /\ ClientInv' /\ BehindInv' /\ AheadInv'
  BY <1>1, <1>2 DEF IInv, PhaseInv, ClientInv, BehindInv, AheadInv, client
<1>4. QueueInv' /\ ~GapWaits'
  BY <1>1, <1>2 DEF QueueInv, GapWaits
<1> QED
  BY <1>1, <1>3, <1>4

LEMMA IInvInit == ASSUME Init PROVE IInv
<1>1. Items(queue) = {} /\ DOMAIN queue = {}
  BY EmptyFacts DEF Init
<1>2. TypeOK
  BY ServedInit DEF ServedInv
<1>3. PhaseInv
  BY DEF Init, PhaseInv, Larger
<1>4. QueueInv
  BY <1>1 DEF QueueInv, GapWaits
<1>5. ClientInv /\ BehindInv /\ AheadInv
  BY DEF Init, ClientInv, BehindInv, AheadInv
<1> QED
  BY <1>2, <1>3, <1>4, <1>5 DEF IInv

LEMMA IInvNext == ASSUME Quiet, IInv, [Next]_vars PROVE IInv'
<1>1. TypeOK'
  BY IInvServed, ServedNext DEF ServedInv
<1>2. CASE Next
  BY <1>1, <1>2, StoreKeeps, PruneKeeps, ConnectKeeps, ExpiredKeeps, SubscribeKeeps, ReplayKeeps,
     SendReplayedKeeps, SendQueuedKeeps, SendGapKeeps, CloseKeeps
     DEF Next, Reconnects, Streams, IInv
<1>3. CASE UNCHANGED vars
  BY <1>1, <1>3 DEF vars, connection, client, IInv, PhaseInv, QueueInv, GapWaits, ClientInv,
     BehindInv, AheadInv, Had, NextUp
<1> QED
  BY <1>2, <1>3

\* No event is missed: a client that has been given an event has been given every earlier one, or
\* has been told of it, or is not owed it.  The queue, the replay and the two together are what
\* event_frames promises "is delivered once rather than missed".
THEOREM FeedHasNoHole == Quiet => (Safe => []NoneMissed)
<1> SUFFICES ASSUME Quiet PROVE Safe => []NoneMissed
  OBVIOUS
<1>1. IInv => NoneMissed
  <2> SUFFICES ASSUME IInv, NEW e \in 1 .. stored, NEW f \in seen, e < f
               PROVE  e \in seen \cup excused
    BY DEF NoneMissed
  <2>1. f \in Nat /\ e \in 1 .. f
    BY Typed DEF IInv
  <2> QED
    BY <2>1 DEF IInv, ClientInv
<1>2. IInv /\ [Next]_vars => IInv'
  BY IInvNext
<1> QED
  BY <1>1, <1>2, IInvInit, PTL DEF Safe
-----------------------------------------------------------------------------
(* Refinement.                                                            *)

LEMMA ReceivedMaps ==
  ASSUME TypeOK, NEW e \in 1 .. stored, e = NextUp, 1 .. e - 1 \subseteq Had, Received(e),
         UNCHANGED <<stored, gaps>>, GapWaits' = GapWaits
  PROVE  Promise!Next
<1>1. /\ seen' = seen \cup {e} /\ cursor' = e /\ (cursor' # 0) = TRUE
      /\ excused' = IF cursor = 0 THEN excused \cup 1 .. e - 1 ELSE excused
      /\ (gaps + IF GapWaits THEN 1 ELSE 0)' = gaps + IF GapWaits THEN 1 ELSE 0
  BY Typed DEF Received
<1>2. CASE cursor = 0
  <2>1. Promise!Join(e)
    BY <1>1, <1>2 DEF Promise!Join
  <2> QED
    BY <2>1 DEF Promise!Next
<1>3. CASE cursor # 0
  <2>1. Promise!Read(e)
    BY <1>1, <1>3 DEF Promise!Read, Had
  <2> QED
    BY <2>1 DEF Promise!Next
<1> QED
  BY <1>2, <1>3

LEMMA StoreMaps ==
  ASSUME Quiet, IInv, Store
  PROVE  Promise!Next
<1>1. stored' = stored + 1 /\ UNCHANGED <<cursor, seen, gaps>>
  BY DEF Store
<1>2. gaps \in Nat
  BY DEF IInv, TypeOK
<1>3. CASE subscribed /\ ~(Len(queue) < SubscriberBuffer)
  <2>1. ~GapWaits /\ GapWaits' /\ queue[1] \in 1 .. stored /\ excused' = excused \cup {queue[1]}
    BY <1>3, StoreWithoutRoom
  <2>2. Promise!Displace
    BY <1>1, <1>2, <2>1 DEF Promise!Displace
  <2> QED
    BY <2>2 DEF Promise!Next
<1>4. CASE ~(subscribed /\ ~(Len(queue) < SubscriberBuffer))
  <2>1. excused' = excused /\ GapWaits' = GapWaits
    <3>1. CASE ~subscribed
      BY <3>1, StoreUnserved DEF GapWaits
    <3>2. CASE subscribed /\ Len(queue) < SubscriberBuffer
      <4>1. queue' = Append(queue, stored + 1) /\ excused' = excused
        BY <3>2 DEF Store, Broadcast
      <4>2. /\ queue \in Seq(Sequences \cup {Gap}) /\ stored + 1 \in Sequences \cup {Gap}
            /\ stored + 1 # Gap
        BY StreamAssumption DEF IInv, TypeOK, Store, Sequences, Gap
      <4>3. Items(queue') = Items(queue) \cup {stored + 1}
        BY <4>1, <4>2, ItemsOfAppend
      <4> QED
        BY <4>1, <4>2, <4>3 DEF GapWaits
    <3> QED
      BY <1>4, <3>1, <3>2
  <2>2. Promise!Append
    BY <1>1, <2>1 DEF Promise!Append
  <2> QED
    BY <2>2 DEF Promise!Next
<1> QED
  BY <1>3, <1>4

\* A new connection, its subscription, the replay and its end are nothing to the promise, and a
\* gap frame that is read was promised when it was queued.
LEMMA NextMaps ==
  ASSUME Quiet, Faults = {}, IInv, [Next]_vars
  PROVE  [Promise!Next]_(Promise!vars)
<1>1. CASE Store
  BY <1>1, StoreMaps
<1>2. CASE SendReplayed
  BY <1>2, SendReplayedKeeps, ReceivedMaps DEF IInv, GapWaits
<1>3. CASE SendQueued
  BY <1>3, SendQueuedKeeps, ReceivedMaps DEF IInv
<1>4. CASE Expired
  <2>1. /\ cursor # 0 /\ cursor' = 0 /\ gaps' = gaps + 1 /\ gaps \in Nat
        /\ UNCHANGED <<stored, queue, seen, excused>>
    BY <1>4 DEF Expired, connection, IInv, TypeOK
  <2>2. GapWaits' = GapWaits
    BY <2>1 DEF GapWaits
  <2>3. Promise!StartOver
    BY <2>1, <2>2 DEF Promise!StartOver
  <2> QED
    BY <2>3 DEF Promise!Next
<1>5. CASE SendGap
  <2>1. /\ GapWaits /\ ~GapWaits' /\ gaps' = gaps + 1 /\ gaps \in Nat
        /\ UNCHANGED <<stored, cursor, seen, excused>>
    BY <1>5, SendGapKeeps DEF IInv, TypeOK
  <2> QED
    BY <2>1 DEF Promise!vars
<1>6. CASE Prune \/ Connect \/ Replay \/ UNCHANGED vars
  <2>1. UNCHANGED <<stored, queue, cursor, seen, excused, gaps>>
    BY <1>6 DEF Prune, Connect, Replay, vars, connection, client
  <2> QED
    BY <2>1 DEF Promise!vars, GapWaits
<1>7. CASE Subscribe \/ Close
  <2>1. ~GapWaits /\ ~GapWaits' /\ UNCHANGED <<stored, cursor, seen, excused, gaps>>
    <3>1. CASE Subscribe
      <4>1. queue = <<>> /\ queue' = <<>> /\ UNCHANGED <<stored, cursor, seen, excused, gaps>>
        BY <3>1 DEF Subscribe, client, IInv, PhaseInv
      <4> QED
        BY <4>1 DEF GapWaits, Items
    <3>2. CASE Close
      BY <3>2, CloseKeeps DEF client
    <3> QED
      BY <1>7, <3>1, <3>2
  <2> QED
    BY <2>1 DEF Promise!vars
<1> QED
  BY <1>1, <1>2, <1>3, <1>4, <1>5, <1>6, <1>7 DEF Next, Reconnects, Streams

\* Every step of the stream is one of the promised feed's or none of its business: a reader is
\* never left in front of a hole it has not been told of, whatever the buffer, the tail and the
\* number of events, and however often retention and lost connections come in between.
THEOREM StreamImplementsFeed == Quiet /\ Faults = {} => (Safe => ImplementsFeed)
<1> SUFFICES ASSUME Quiet, Faults = {} PROVE Safe => ImplementsFeed
  OBVIOUS
<1>1. Init => Promise!Init
  <2> SUFFICES ASSUME Init PROVE Promise!Init
    OBVIOUS
  <2>1. ~GapWaits /\ stored = 0 /\ seen = {} /\ cursor = 0 /\ excused = {} /\ gaps = 0
    BY DEF Init, GapWaits, Items
  <2> QED
    BY <2>1 DEF Promise!Init
<1>2. IInv /\ [Next]_vars => IInv'
  BY IInvNext
<1>3. IInv /\ [Next]_vars => [Promise!Next]_(Promise!vars)
  BY NextMaps
<1> QED
  BY <1>1, <1>2, <1>3, IInvInit, PTL DEF Safe, ImplementsFeed, Promise!Safe
=============================================================================
