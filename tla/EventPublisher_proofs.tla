------------------------- MODULE EventPublisher_proofs -------------------------
(***************************************************************************)
(* Proofs about EventPublisher, for every buffer, batch and number of      *)
(* events: the buffer is bounded and snapshot() answers for every event;   *)
(* and the collector first sees events in the order they were emitted,     *)
(* through refused posts, lost answers and a stop at any moment.           *)
(*                                                                         *)
(* The invariant behind the order: an event that waits in the buffer or in *)
(* a batch is one the collector has, from a post whose answer was lost, or *)
(* is later than all that it has.                                          *)
(***************************************************************************)
EXTENDS EventPublisher, SequenceTheorems, FiniteSetTheorems, TLAPS

\* Which of the two is posting, and how much.
Posting ==
  /\ pump # "posting" => batch["pump"] = <<>>
  /\ drain # "posting" => batch["drain"] = <<>>
  /\ drain # "no" => pump = "off"
  /\ \A f \in Flusher : Len(batch[f]) <= Batch

InPost(f) == Len(batch[f])

\* The events that snapshot() answers for.
Counted == published + dropped + Len(pending) + InPost("pump") + InPost("drain")

\* A stop abandons one batch, and a drain that runs out of time another.
Answered ==
  /\ Counted <= emitted
  /\ drain = "no" => emitted <= Counted
  /\ drain = "posting" => emitted <= Counted + Batch
  /\ drain = "done" => emitted <= Counted + 2 * Batch

Later(t, e) == \A i \in 1 .. Len(t) : t[i] < e
Kept(t, e) == \E i \in 1 .. Len(t) : t[i] = e

\* Of all that waits in s, the collector that has t has it or has nothing after it.
Due(t, s) == \A i \in 1 .. Len(s) : Kept(t, s[i]) \/ Later(t, s[i])

\* What waits is in order, and the collector has it or will see it next.
Flow ==
  /\ Rising(timeline) /\ Rising(pending) /\ Due(timeline, pending)
  /\ \A f \in Flusher : Rising(batch[f]) /\ Due(timeline, batch[f])
  /\ \A f \in Flusher : \A i \in 1 .. Len(batch[f]), j \in 1 .. Len(pending) :
       batch[f][i] < pending[j]

Books == TypeOK /\ Posting /\ Answered
Inv == Books /\ Flow
-----------------------------------------------------------------------------
(* What the operators do.                                                 *)

\* The front of the buffer becomes f's batch.
Moves(f) ==
  LET n == Smaller(Batch, Len(pending)) IN
  batch'[f] = SubSeq(pending, 1, n) /\ pending' = SubSeq(pending, n + 1, Len(pending))

\* It is empty only if the buffer was.
LEMMA Taken ==
  ASSUME PublisherAssumption, TypeOK, NEW f \in Flusher, Moves(f)
  PROVE  /\ pending' \in Seq(Events) /\ batch'[f] \in Seq(Events)
         /\ Len(batch'[f]) + Len(pending') = Len(pending) /\ Len(batch'[f]) <= Batch
         /\ \A i \in 1 .. Len(batch'[f]) : batch'[f][i] = pending[i]
         /\ \A i \in 1 .. Len(pending') : pending'[i] = pending[i + Len(batch'[f])]
         /\ pending = <<>> => batch'[f] = <<>>
<1> DEFINE n == Smaller(Batch, Len(pending))
<1>1. pending \in Seq(Events) /\ Len(pending) \in Nat /\ n \in 0 .. Len(pending) /\ n <= Batch
  BY DEF PublisherAssumption, TypeOK, Smaller
<1>2. \A i \in 1 .. Len(pending) : pending[i] \in Events
  BY <1>1, ElementOfSeq
<1>3. /\ SubSeq(pending, 1, n) \in Seq(Events) /\ Len(SubSeq(pending, 1, n)) = n
      /\ \A i \in 1 .. n : SubSeq(pending, 1, n)[i] = pending[i]
  <2> HIDE DEF n
  <2>1. \A i \in 1 .. n : pending[i] \in Events
    BY <1>1, <1>2
  <2> QED BY <1>1, <2>1, SubSeqProperties
<1>4. /\ SubSeq(pending, n + 1, Len(pending)) \in Seq(Events)
      /\ Len(SubSeq(pending, n + 1, Len(pending))) = Len(pending) - n
      /\ \A i \in 1 .. Len(pending) - n :
           SubSeq(pending, n + 1, Len(pending))[i] = pending[i + n]
  <2> HIDE DEF n
  <2>1. \A i \in n + 1 .. Len(pending) : pending[i] \in Events
    BY <1>1, <1>2
  <2> QED BY <1>1, <2>1, SubSeqProperties
<1>5. batch'[f] = SubSeq(pending, 1, n) /\ pending' = SubSeq(pending, n + 1, Len(pending))
  BY DEF Moves
<1>6. pending = <<>> => batch'[f] = <<>>
  BY <1>1, <1>3, <1>5, EmptySeq
<1> HIDE DEF n
<1>7. Len(batch'[f]) = n /\ Len(pending') = Len(pending) - n
  BY <1>3, <1>4, <1>5
<1>8. /\ \A i \in 1 .. n : batch'[f][i] = pending[i]
      /\ \A i \in 1 .. Len(pending) - n : pending'[i] = pending[i + n]
  BY <1>3, <1>4, <1>5
<1>9. n + (Len(pending) - n) = Len(pending)
  BY <1>1
<1> QED BY <1>1, <1>3, <1>4, <1>5, <1>6, <1>7, <1>8, <1>9

\* It takes its turn among the batches.
LEMMA Takes ==
  ASSUME PublisherAssumption, TypeOK, NEW f \in Flusher, TakesBatch(f)
  PROVE  Moves(f) /\ batch' \in [Flusher -> Seq(Events)] /\ batch' = [batch EXCEPT ![f] = batch'[f]]
<1>1. Moves(f)
  BY DEF TakesBatch, Moves, TypeOK
<1>2. batch' = [batch EXCEPT ![f] = batch'[f]]
  BY DEF TakesBatch, TypeOK
<1> QED BY <1>1, <1>2, Taken DEF TypeOK

\* A batch goes back in front of the buffer; what no longer fits at the other end is dropped.
LEMMA PutsBack ==
  ASSUME PublisherAssumption, TypeOK, NEW f \in Flusher, PutBack(f)
  PROVE  /\ pending' \in Seq(Events) /\ Len(pending') <= Buffer
         /\ batch' = [batch EXCEPT ![f] = <<>>] /\ batch' \in [Flusher -> Seq(Events)]
         /\ Len(pending') <= Len(batch[f]) + Len(pending)
         /\ dropped' \in Nat
         /\ dropped' + Len(pending') = dropped + Len(batch[f]) + Len(pending)
         /\ \A i \in 1 .. Len(pending') :
              pending'[i] = IF i <= Len(batch[f]) THEN batch[f][i] ELSE pending[i - Len(batch[f])]
<1> DEFINE all == batch[f] \o pending
           n == Smaller(Buffer, Len(all))
<1>1. /\ all \in Seq(Events) /\ Len(all) = Len(batch[f]) + Len(pending)
      /\ \A i \in 1 .. Len(all) :
           all[i] = IF i <= Len(batch[f]) THEN batch[f][i] ELSE pending[i - Len(batch[f])]
  BY ConcatProperties DEF TypeOK
<1>2. Len(batch[f]) \in Nat /\ Len(pending) \in Nat /\ dropped \in Nat
  BY DEF TypeOK
<1>3. pending' = SubSeq(all, 1, n) /\ dropped' = dropped + (Len(all) - n)
      /\ batch' = [batch EXCEPT ![f] = <<>>]
  BY DEF PutBack
<1> HIDE DEF all
<1>4. n \in 0 .. Len(all) /\ n <= Buffer
  BY <1>1, <1>2 DEF PublisherAssumption, Smaller
<1> HIDE DEF n
<1>5. \A i \in 1 .. n : all[i] \in Events
  BY <1>1, <1>2, <1>4, ElementOfSeq
<1>6. /\ SubSeq(all, 1, n) \in Seq(Events) /\ Len(SubSeq(all, 1, n)) = n
      /\ \A i \in 1 .. n : SubSeq(all, 1, n)[i] = all[i]
  BY <1>1, <1>2, <1>4, <1>5, SubSeqProperties
<1>7. batch' \in [Flusher -> Seq(Events)]
  BY <1>3 DEF TypeOK
<1>8. Len(pending') = n /\ dropped' = dropped + (Len(all) - n)
  BY <1>3, <1>6
<1>9. \A i \in 1 .. Len(pending') : pending'[i] = all[i]
  BY <1>3, <1>6, <1>8
<1>10. dropped' \in Nat /\ dropped' + Len(pending') = dropped + Len(batch[f]) + Len(pending)
  BY <1>1, <1>2, <1>4, <1>8
<1>11. \A i \in 1 .. Len(pending') : i \in 1 .. Len(all)
  BY <1>1, <1>2, <1>4, <1>8
<1>12. \A i \in 1 .. Len(pending') :
         pending'[i] = IF i <= Len(batch[f]) THEN batch[f][i] ELSE pending[i - Len(batch[f])]
  BY <1>1, <1>9, <1>11
<1>13. Len(pending') <= Buffer /\ Len(pending') <= Len(batch[f]) + Len(pending)
  BY <1>1, <1>2, <1>4, <1>8
<1> QED BY <1>3, <1>6, <1>7, <1>10, <1>12, <1>13

\* A batch that arrives is added to what the collector has: all of it that is new, in its order.
LEMMA Adds ==
  ASSUME TypeOK, NEW b \in Seq(Events), Arrives(b)
  PROVE  /\ timeline' \in Seq(Events) /\ Len(timeline') >= Len(timeline)
         /\ \A i \in 1 .. Len(timeline) : timeline'[i] = timeline[i]
         /\ \A i \in 1 .. Len(b) : \E j \in 1 .. Len(timeline') : timeline'[j] = b[i]
         /\ \A i \in Len(timeline) + 1 .. Len(timeline') :
              \E k \in 1 .. Len(b) : timeline'[i] = b[k] /\ ~ Kept(timeline, b[k])
         /\ Rising(b) => \A i, j \in Len(timeline) + 1 .. Len(timeline') :
              i < j => timeline'[i] < timeline'[j]
<1> DEFINE I == {i \in DOMAIN b : b[i] \notin Range(timeline)}
           n == Cardinality(I)
<1>1. PICK p \in Ascending(I) : timeline' = timeline \o [i \in DOMAIN p |-> b[p[i]]]
  BY DEF Arrives
<1> DEFINE s == [i \in DOMAIN p |-> b[p[i]]]
<1>2. I \subseteq 1 .. Len(b) /\ DOMAIN b = 1 .. Len(b) /\ Len(b) \in Nat /\ \A i \in 1 .. Len(b) : b[i] \in Events
  OBVIOUS
<1>3. n \in Nat
  <2> HIDE DEF I
  <2>1. IsFiniteSet(1 .. Len(b))
    BY <1>2, FS_Interval
  <2>2. IsFiniteSet(I)
    BY <1>2, <2>1, FS_Subset
  <2> QED BY <2>2, FS_CardinalityType
<1>4. \A i \in 1 .. Len(b) : i \in I <=> ~ Kept(timeline, b[i])
  BY <1>2 DEF Kept, Range
<1>5. p \in [1 .. n -> I] /\ Range(p) = I /\ \A i, j \in 1 .. n : i < j => p[i] < p[j]
  BY DEF Ascending
<1> HIDE DEF I, n
<1>6. s \in [1 .. n -> Events] /\ \A i \in 1 .. n : s[i] = b[p[i]]
  BY <1>2, <1>5
<1>7. s \in Seq(Events) /\ Len(s) = n
  BY <1>3, <1>6
<1>8. /\ timeline' \in Seq(Events) /\ Len(timeline') = Len(timeline) + n
      /\ \A i \in 1 .. Len(timeline) + n :
           timeline'[i] = IF i <= Len(timeline) THEN timeline[i] ELSE s[i - Len(timeline)]
  BY <1>1, <1>7, ConcatProperties DEF TypeOK
<1> HIDE DEF s
<1>9. Len(timeline) \in Nat
  BY DEF TypeOK
<1>10. \A i \in Len(timeline) + 1 .. Len(timeline') :
         i - Len(timeline) \in 1 .. n /\ timeline'[i] = b[p[i - Len(timeline)]]
  BY <1>3, <1>6, <1>8, <1>9
<1>11. ASSUME NEW i \in 1 .. Len(b)
       PROVE  \E j \in 1 .. Len(timeline') : timeline'[j] = b[i]
  <2>1. CASE i \in I
    <3>1. PICK k \in 1 .. n : p[k] = i
      BY <1>5, <2>1 DEF Range
    <3> DEFINE j == Len(timeline) + k
    <3>2. j \in Len(timeline) + 1 .. Len(timeline') /\ j - Len(timeline) = k
      BY <1>3, <1>8, <1>9
    <3> HIDE DEF j
    <3>3. timeline'[j] = b[p[k]] /\ j \in 1 .. Len(timeline')
      BY <1>9, <1>10, <3>2
    <3> QED BY <3>1, <3>3
  <2>2. CASE i \notin I
    BY <1>3, <1>4, <1>8, <1>9, <2>2 DEF Kept, TypeOK
  <2> QED BY <2>1, <2>2
<1>12. \A i \in Len(timeline) + 1 .. Len(timeline') :
         \E k \in 1 .. Len(b) : timeline'[i] = b[k] /\ ~ Kept(timeline, b[k])
  BY <1>2, <1>4, <1>5, <1>10
<1>13. ASSUME Rising(b), NEW i \in Len(timeline) + 1 .. Len(timeline'),
              NEW j \in Len(timeline) + 1 .. Len(timeline'), i < j
       PROVE  timeline'[i] < timeline'[j]
  <2>1. p[i - Len(timeline)] < p[j - Len(timeline)]
    BY <1>3, <1>5, <1>8, <1>9, <1>10, <1>13
  <2>2. p[i - Len(timeline)] \in DOMAIN b /\ p[j - Len(timeline)] \in DOMAIN b
    BY <1>2, <1>5, <1>10, <1>13
  <2>3. b[p[i - Len(timeline)]] < b[p[j - Len(timeline)]]
    BY <1>13, <2>1, <2>2 DEF Rising
  <2> QED BY <1>10, <2>3
<1> QED BY <1>3, <1>8, <1>9, <1>11, <1>12, <1>13

\* Whether or not a batch arrives, all that waits stays due.
LEMMA Arrival ==
  ASSUME Books, Flow, NEW f \in Flusher, Arrives(batch[f]) \/ UNCHANGED timeline
  PROVE  /\ timeline' \in Seq(Events) /\ Rising(timeline')
         /\ Due(timeline', pending) /\ Due(timeline', batch[f])
<1>1. /\ timeline \in Seq(Events) /\ pending \in Seq(Events) /\ batch[f] \in Seq(Events)
      /\ \A i \in 1 .. Len(pending) : pending[i] \in Int
      /\ \A i \in 1 .. Len(batch[f]) : batch[f][i] \in Int
      /\ \A i \in 1 .. Len(timeline) : timeline[i] \in Int
  BY DEF Books, TypeOK, Events
<1>2. CASE UNCHANGED timeline
  BY <1>1, <1>2 DEF Flow
<1>3. CASE Arrives(batch[f])
  <2> DEFINE b == batch[f]
             n == Len(timeline)
             m == Len(timeline')
  <2>1. /\ timeline' \in Seq(Events) /\ m >= n /\ m \in Nat /\ n \in Nat
        /\ \A i \in 1 .. n : timeline'[i] = timeline[i]
        /\ \A i \in 1 .. Len(b) : \E j \in 1 .. m : timeline'[j] = b[i]
        /\ \A i \in n + 1 .. m : \E k \in 1 .. Len(b) : timeline'[i] = b[k] /\ ~ Kept(timeline, b[k])
        /\ \A i, j \in n + 1 .. m : i < j => timeline'[i] < timeline'[j]
    <3> HIDE DEF b
    <3>1. b \in Seq(Events) /\ Arrives(b) /\ TypeOK /\ Rising(b)
      BY <1>1, <1>3 DEF Books, Flow, b
    <3>2. n \in Nat /\ m \in Nat
      BY <3>1, Adds DEF TypeOK
    <3> QED BY <3>1, <3>2, Adds
  <2>2. DOMAIN timeline' = 1 .. m /\ DOMAIN timeline = 1 .. n
    BY <1>1, <2>1
  <2> HIDE DEF n, m, b
  <2>3. \A i \in 1 .. m : i \in 1 .. n \/ i \in n + 1 .. m
    BY <2>1
  <2>4. \A i \in 1 .. n, j \in n + 1 .. m : timeline'[i] < timeline'[j]
    BY <1>1, <2>1 DEF Flow, Due, Later, b, n
  <2>5. Rising(timeline')
    BY <2>1, <2>2, <2>3, <2>4 DEF Flow, Rising
  <2>6. Due(timeline', b)
    BY <2>1 DEF Due, Kept, m
  <2>7. \A i \in 1 .. Len(pending) : Kept(timeline, pending[i]) => Kept(timeline', pending[i])
    BY <2>1 DEF Kept, m, n
  <2>8. ASSUME NEW i \in 1 .. Len(pending), Later(timeline, pending[i])
        PROVE  Later(timeline', pending[i])
    <3>1. \A j \in n + 1 .. m : timeline'[j] < pending[i]
      BY <2>1 DEF Flow, b
    <3> QED BY <2>1, <2>3, <2>8, <3>1 DEF Later, m, n
  <2> QED BY <2>1, <2>5, <2>6, <2>7, <2>8 DEF Flow, Due, b
<1> QED BY <1>2, <1>3

\* A batch that is taken comes before what is left in the buffer.
LEMMA TakingKeepsOrder ==
  ASSUME PublisherAssumption, TypeOK, NEW f \in Flusher, Moves(f), Rising(pending),
         Due(timeline', pending)
  PROVE  /\ Rising(pending') /\ Due(timeline', pending')
         /\ Rising(batch'[f]) /\ Due(timeline', batch'[f])
         /\ \A i \in 1 .. Len(batch'[f]), j \in 1 .. Len(pending') : batch'[f][i] < pending'[j]
<1> DEFINE n == Len(batch'[f])
           m == Len(pending')
<1>1. /\ n \in Nat /\ m \in Nat /\ n + m = Len(pending)
      /\ DOMAIN pending = 1 .. n + m /\ DOMAIN pending' = 1 .. m /\ DOMAIN batch'[f] = 1 .. n
      /\ \A i \in 1 .. n : batch'[f][i] = pending[i]
      /\ \A i \in 1 .. m : pending'[i] = pending[i + n]
  BY Taken DEF TypeOK
<1> HIDE DEF n, m
<1>2. /\ \A i \in 1 .. n : i \in 1 .. n + m
      /\ \A i \in 1 .. m : i + n \in 1 .. n + m
      /\ \A i \in 1 .. n, j \in 1 .. m : i < j + n
      /\ \A i, j \in 1 .. m : i < j => i + n < j + n
  BY <1>1
<1>3. Rising(pending') /\ Rising(batch'[f])
  BY <1>1, <1>2 DEF Rising
<1>4. Due(timeline', pending') /\ Due(timeline', batch'[f])
  BY <1>1, <1>2 DEF Due, n, m
<1>5. \A i \in 1 .. n, j \in 1 .. m : batch'[f][i] < pending'[j]
  BY <1>1, <1>2 DEF Rising
<1> QED BY <1>3, <1>4, <1>5 DEF n, m

\* A batch that is put back comes before the buffer again.
LEMMA PuttingBackKeepsOrder ==
  ASSUME PublisherAssumption, TypeOK, Flow, NEW f \in Flusher, PutBack(f),
         Due(timeline', pending), Due(timeline', batch[f])
  PROVE  Rising(pending') /\ Due(timeline', pending')
<1> DEFINE n == Len(batch[f])
           m == Len(pending')
<1>1. /\ n \in Nat /\ m \in Nat /\ m <= n + Len(pending) /\ Len(pending) \in Nat
      /\ DOMAIN batch[f] = 1 .. n /\ DOMAIN pending' = 1 .. m /\ DOMAIN pending = 1 .. Len(pending)
      /\ \A i \in 1 .. m : pending'[i] = IF i <= n THEN batch[f][i] ELSE pending[i - n]
  BY PutsBack DEF TypeOK
<1> HIDE DEF n, m
<1>2. \A i \in 1 .. m : IF i <= n THEN i \in 1 .. n ELSE i - n \in 1 .. Len(pending)
  BY <1>1
<1>3. ASSUME NEW i \in 1 .. m, NEW j \in 1 .. m, i < j
      PROVE  pending'[i] < pending'[j]
  <2>1. CASE j <= n
    BY <1>1, <1>2, <1>3, <2>1 DEF Flow, Rising
  <2>2. CASE i <= n /\ ~ j <= n
    BY <1>1, <1>2, <2>2 DEF Flow, n
  <2>3. CASE ~ i <= n
    <3>1. i - n < j - n /\ ~ j <= n
      BY <1>1, <1>3, <2>3
    <3> QED BY <1>1, <1>2, <2>3, <3>1 DEF Flow, Rising
  <2> QED BY <1>1, <2>1, <2>2, <2>3
<1>4. Due(timeline', pending')
  BY <1>1, <1>2 DEF Due, n, m
<1> QED BY <1>1, <1>3, <1>4 DEF Rising
-----------------------------------------------------------------------------
(* Every step keeps the invariant.                                        *)

LEMMA InitInv == ASSUME PublisherAssumption, Init PROVE Inv
<1>1. \A f \in Flusher : batch[f] = <<>> /\ batch["pump"] = <<>> /\ batch["drain"] = <<>>
  BY DEF Init, Flusher
<1>2. Len(<<>>) = 0 /\ DOMAIN <<>> = {}
  OBVIOUS
<1>3. TypeOK
  <2>1. <<>> \in Seq(Events) /\ batch \in [Flusher -> Seq(Events)]
    BY <1>1, EmptySeq DEF Init
  <2>2. consecutive \in 0 .. MaxDoublings /\ Len(<<>>) <= Buffer
    BY <1>2 DEF Init, PublisherAssumption
  <2> QED BY <2>1, <2>2 DEF Init, TypeOK
<1>4. Posting /\ Answered
  <2>1. batch["pump"] = <<>> /\ batch["drain"] = <<>>
    BY DEF Init, Flusher
  <2>2. Len(pending) = 0 /\ InPost("pump") = 0 /\ InPost("drain") = 0
    BY <1>2, <2>1 DEF Init, InPost
  <2>3. emitted = 0 /\ published = 0 /\ dropped = 0 /\ drain = "no"
    BY DEF Init
  <2>4. Counted = emitted
    BY <2>2, <2>3 DEF Counted
  <2>5. Posting
    BY <1>1, <1>2, <2>1 DEF Init, Posting, PublisherAssumption
  <2> QED BY <2>3, <2>4, <2>5 DEF Answered
<1>5. Flow
  BY <1>1, <1>2 DEF Init, Flow, Rising, Due
<1> QED BY <1>3, <1>4, <1>5 DEF Inv, Books

\* A flow whose other batch is empty.
LEMMA OneBatch ==
  ASSUME NEW f \in Flusher, \A g \in Flusher \ {f} : batch'[g] = <<>>,
         Rising(timeline'), Rising(pending'), Due(timeline', pending'),
         Rising(batch'[f]), Due(timeline', batch'[f]),
         \A i \in 1 .. Len(batch'[f]), j \in 1 .. Len(pending') : batch'[f][i] < pending'[j]
  PROVE  Flow'
<1>1. Len(<<>>) = 0 /\ DOMAIN <<>> = {} /\ Rising(<<>>) /\ Due(timeline', <<>>)
  BY DEF Rising, Due
<1>2. \A g \in Flusher : Rising(batch'[g]) /\ Due(timeline', batch'[g])
  BY <1>1
<1>3. \A g \in Flusher : \A i \in 1 .. Len(batch'[g]), j \in 1 .. Len(pending') :
        batch'[g][i] < pending'[j]
  BY <1>1
<1> QED BY <1>2, <1>3 DEF Flow

LEMMA EmitKeeps == ASSUME PublisherAssumption, Inv, Emit PROVE Inv'
<1> DEFINE e == emitted + 1
           n == Len(pending)
<1>1. emitted \in Nat /\ emitted' = e /\ Events \subseteq Events' /\ e \in Events'
  BY DEF Emit, Inv, Books, TypeOK, Events
<1>2. /\ pending \in Seq(Events') /\ timeline \in Seq(Events') /\ n \in Nat
      /\ \A f \in Flusher : batch[f] \in Seq(Events')
      /\ batch \in [Flusher -> Seq(Events')]
  <2>1. pending \in Seq(Events) /\ timeline \in Seq(Events) /\ batch \in [Flusher -> Seq(Events)]
    BY DEF Inv, Books, TypeOK
  <2> QED BY <1>1, <2>1, SeqMonotonic
<1>3. /\ \A i \in 1 .. n : pending[i] < e
      /\ \A i \in 1 .. Len(timeline) : timeline[i] < e
      /\ \A f \in Flusher : \A i \in 1 .. Len(batch[f]) : batch[f][i] < e
  BY DEF Inv, Books, TypeOK, Events
<1>4. UNCHANGED <<published, consecutive, pump, sent, drain, batch, collector, timeline>>
  BY DEF Emit
<1>5. /\ pending' \in Seq(Events') /\ Len(pending') <= Buffer
      /\ dropped' \in Nat /\ dropped' + Len(pending') = dropped + n + 1
      /\ Rising(pending') /\ Due(timeline, pending')
      /\ \A f \in Flusher : \A i \in 1 .. Len(batch[f]), j \in 1 .. Len(pending') :
           batch[f][i] < pending'[j]
  <2>1. CASE n = Buffer
    <3> DEFINE t == Tail(pending)
    <3>1. pending # <<>> /\ n >= 1
      BY <1>2, <2>1, EmptySeq DEF PublisherAssumption
    <3>2. t \in Seq(Events') /\ Len(t) = n - 1 /\ \A i \in 1 .. n - 1 : t[i] = pending[i + 1]
      BY <1>2, <3>1, HeadTailProperties
    <3>3. pending' = Append(t, e) /\ dropped' = dropped + 1
      BY <2>1 DEF Emit
    <3> HIDE DEF t, e
    <3>4. /\ pending' \in Seq(Events') /\ Len(pending') = n /\ pending'[n] = e
          /\ \A i \in 1 .. n - 1 : pending'[i] = pending[i + 1]
      BY <1>1, <1>2, <3>2, <3>3, AppendProperties
    <3>5. DOMAIN pending = 1 .. n /\ DOMAIN pending' = 1 .. n
      BY <1>2, <3>4
    <3> HIDE DEF n
    <3>6. \A i \in 1 .. n : i = n \/ (i \in 1 .. n - 1 /\ i + 1 \in 1 .. n)
      BY <1>2
    <3>7. ASSUME NEW i \in 1 .. n, NEW j \in 1 .. n, i < j
          PROVE  pending'[i] < pending'[j]
      <4>1. i \in 1 .. n - 1 /\ i + 1 \in 1 .. n /\ pending'[i] = pending[i + 1]
        BY <1>2, <3>4, <3>6, <3>7
      <4>2. CASE j = n
        BY <1>3, <3>4, <4>1, <4>2 DEF n
      <4>3. CASE j # n
        <5>1. j + 1 \in 1 .. n /\ i + 1 < j + 1 /\ pending'[j] = pending[j + 1]
          BY <1>2, <3>4, <3>6, <3>7, <4>3
        <5> QED BY <3>5, <4>1, <5>1 DEF Inv, Flow, Rising
      <4> QED BY <4>2, <4>3
    <3>8. Due(timeline, pending')
      BY <1>3, <3>4, <3>6 DEF Inv, Flow, Due, Later, n
    <3>9. \A f \in Flusher : \A i \in 1 .. Len(batch[f]), j \in 1 .. n : batch[f][i] < pending'[j]
      BY <1>3, <3>4, <3>6 DEF Inv, Flow, n
    <3>10. dropped' \in Nat /\ dropped' + n = dropped + n + 1 /\ n <= Buffer
      BY <1>2, <2>1, <3>3 DEF Inv, Books, TypeOK, n
    <3> QED BY <3>4, <3>5, <3>7, <3>8, <3>9, <3>10 DEF Rising
  <2>2. CASE n # Buffer
    <3>1. pending' = Append(pending, e) /\ dropped' = dropped
      BY <2>2 DEF Emit
    <3> HIDE DEF e
    <3>2. /\ pending' \in Seq(Events') /\ Len(pending') = n + 1 /\ pending'[n + 1] = e
          /\ \A i \in 1 .. n : pending'[i] = pending[i]
      BY <1>1, <1>2, <3>1, AppendProperties
    <3>3. DOMAIN pending = 1 .. n /\ DOMAIN pending' = 1 .. n + 1
      BY <1>2, <3>2
    <3>4. n + 1 <= Buffer /\ dropped' \in Nat /\ dropped' + (n + 1) = dropped + n + 1
      BY <1>2, <2>2, <3>1 DEF Inv, Books, TypeOK, PublisherAssumption
    <3> HIDE DEF n
    <3>5. \A i \in 1 .. n + 1 : i = n + 1 \/ i \in 1 .. n
      BY <1>2
    <3>6. Rising(pending')
      BY <1>2, <1>3, <3>2, <3>3, <3>5 DEF Inv, Flow, Rising
    <3>7. Due(timeline, pending')
      BY <1>3, <3>2, <3>5 DEF Inv, Flow, Due, Later, n
    <3>8. \A f \in Flusher : \A i \in 1 .. Len(batch[f]), j \in 1 .. n + 1 :
            batch[f][i] < pending'[j]
      BY <1>3, <3>2, <3>5 DEF Inv, Flow, n
    <3> QED BY <3>2, <3>4, <3>6, <3>7, <3>8
  <2> QED BY <2>1, <2>2
<1>6. TypeOK'
  BY <1>1, <1>2, <1>4, <1>5 DEF Inv, Books, TypeOK
<1>7. Posting' /\ Answered'
  <2>1. /\ published \in Nat /\ dropped \in Nat /\ Len(pending') \in Nat
        /\ InPost("pump") \in Nat /\ InPost("drain") \in Nat
    BY <1>2, <1>5 DEF Inv, Books, TypeOK, Flusher, InPost
  <2>2. InPost("pump")' = InPost("pump") /\ InPost("drain")' = InPost("drain")
    BY <1>4 DEF InPost
  <2>3. Counted' = Counted + 1 /\ Counted \in Nat
    <3>1. published' = published /\ dropped' \in Nat /\ Len(pending) \in Nat
          /\ dropped' + Len(pending') = dropped + Len(pending) + 1
      BY <1>2, <1>4, <1>5
    <3>2. Counted \in Nat
      BY <2>1, <3>1 DEF Counted
    <3>3. Counted' = published + dropped' + Len(pending') + InPost("pump") + InPost("drain")
      BY <2>2, <3>1 DEF Counted
    <3>4. @ = published + (dropped' + Len(pending')) + InPost("pump") + InPost("drain")
      BY <2>1, <3>1
    <3>5. @ = published + (dropped + Len(pending) + 1) + InPost("pump") + InPost("drain")
      BY <3>1
    <3>6. @ = Counted + 1
      BY <2>1, <3>1 DEF Counted
    <3> QED BY <3>2, <3>3, <3>4, <3>5, <3>6
  <2> HIDE DEF n
  <2> QED BY <1>1, <1>4, <2>3 DEF Inv, Books, Posting, Answered, PublisherAssumption
<1>8. Flow'
  BY <1>4, <1>5 DEF Inv, Flow
<1> QED BY <1>6, <1>7, <1>8 DEF Inv, Books

\* The counts while one batch is empty.
LEMMA CountsOfOne ==
  ASSUME NEW f \in Flusher, InPost("pump") \in Nat, InPost("drain") \in Nat,
         published \in Nat, dropped \in Nat, Len(pending) \in Nat
  PROVE  (\A g \in Flusher \ {f} : batch[g] = <<>>) =>
           Counted = published + dropped + (Len(pending) + InPost(f))
<1>1. Len(<<>>) = 0
  OBVIOUS
<1> SUFFICES ASSUME \A g \in Flusher \ {f} : batch[g] = <<>>
             PROVE  Counted = published + dropped + (Len(pending) + InPost(f))
  OBVIOUS
<1>2. CASE f = "pump"
  <2>1. InPost("drain") = 0
    BY <1>1, <1>2 DEF Flusher, InPost
  <2>2. InPost(f) = InPost("pump")
    BY <1>2
  <2> QED BY <2>1, <2>2, SMTT(30) DEF Counted
<1>3. CASE f = "drain"
  <2>1. InPost("pump") = 0
    BY <1>1, <1>3 DEF Flusher, InPost
  <2>2. InPost(f) = InPost("drain")
    BY <1>3
  <2> QED BY <2>1, <2>2, SMTT(30) DEF Counted
<1> QED BY <1>2, <1>3 DEF Flusher

LEMMA CountsOfOneNext ==
  ASSUME NEW f \in Flusher, InPost("pump")' \in Nat, InPost("drain")' \in Nat,
         published' \in Nat, dropped' \in Nat, Len(pending') \in Nat
  PROVE  (\A g \in Flusher \ {f} : batch'[g] = <<>>) =>
           Counted' = published' + dropped' + (Len(pending') + InPost(f)')
<1>1. Len(<<>>) = 0
  OBVIOUS
<1> SUFFICES ASSUME \A g \in Flusher \ {f} : batch'[g] = <<>>
             PROVE  Counted' = published' + dropped' + (Len(pending') + InPost(f)')
  OBVIOUS
<1>2. CASE f = "pump"
  <2>1. InPost("drain")' = 0
    BY <1>1, <1>2 DEF Flusher, InPost
  <2>2. InPost(f)' = InPost("pump")'
    BY <1>2
  <2> QED BY <2>1, <2>2, SMTT(30) DEF Counted
<1>3. CASE f = "drain"
  <2>1. InPost("pump")' = 0
    BY <1>1, <1>3 DEF Flusher, InPost
  <2>2. InPost(f)' = InPost("drain")'
    BY <1>3
  <2> QED BY <2>1, <2>2, SMTT(30) DEF Counted
<1> QED BY <1>2, <1>3 DEF Flusher

LEMMA Lengths ==
  ASSUME Books
  PROVE  /\ Len(pending) \in Nat /\ published \in Nat /\ dropped \in Nat /\ emitted \in Nat
         /\ \A f \in Flusher : batch[f] \in Seq(Events) /\ InPost(f) \in Nat
         /\ InPost("pump") \in Nat /\ InPost("drain") \in Nat
BY DEF Books, TypeOK, InPost, Flusher

\* What a flush does when it goes on: its batch has arrived, or there was none.
LEMMA FlushGoesOn ==
  ASSUME PublisherAssumption, Inv, NEW f \in Flusher, TakesBatch(f),
         \A g \in Flusher \ {f} : batch[g] = <<>>,
         Rising(timeline'), Due(timeline', pending),
         published' = published + Len(batch[f]), dropped' = dropped
  PROVE  /\ Flow' /\ Counted' = Counted /\ published' \in Nat
         /\ pending' \in Seq(Events) /\ Len(pending') <= Buffer
         /\ batch' \in [Flusher -> Seq(Events)]
         /\ \A g \in Flusher : Len(batch'[g]) <= Batch
         /\ \A g \in Flusher \ {f} : batch'[g] = <<>>
         /\ pending = <<>> => batch'[f] = <<>>
<1>1. Moves(f) /\ batch' \in [Flusher -> Seq(Events)] /\ batch' = [batch EXCEPT ![f] = batch'[f]]
  BY Takes DEF Inv, Books
<1>2. \A g \in Flusher \ {f} : batch'[g] = <<>>
  BY <1>1 DEF Inv, Books, TypeOK
<1>3. /\ pending' \in Seq(Events) /\ batch'[f] \in Seq(Events)
      /\ Len(batch'[f]) + Len(pending') = Len(pending) /\ Len(batch'[f]) <= Batch
      /\ pending = <<>> => batch'[f] = <<>>
  BY <1>1, Taken DEF Inv, Books
<1>4. Flow'
  BY <1>1, <1>2, TakingKeepsOrder, OneBatch DEF Inv, Books, Flow
<1>5. Len(pending') <= Buffer /\ Len(pending') \in Nat
  <2>1. Len(pending) <= Buffer /\ Len(pending') \in Nat /\ Len(batch'[f]) \in Nat /\ Len(pending) \in Nat
    BY <1>3 DEF Inv, Books, TypeOK
  <2> QED BY <1>3, <2>1 DEF PublisherAssumption
<1>6. \A g \in Flusher : Len(batch'[g]) <= Batch
  BY <1>2, <1>3, EmptySeq DEF PublisherAssumption
<1>7. published' \in Nat /\ published' + 0 = published + InPost(f)
  BY Lengths DEF Inv, InPost
<1>8. Counted' = Counted
  <2>1. InPost("pump")' \in Nat /\ InPost("drain")' \in Nat /\ InPost(f)' + Len(pending') = Len(pending)
        /\ InPost(f)' \in Nat
    BY <1>1, <1>3 DEF InPost, Flusher
  <2>2. Counted = published + dropped + (Len(pending) + InPost(f))
    BY Lengths, CountsOfOne DEF Inv
  <2>3. Counted' = published' + dropped' + (Len(pending') + InPost(f)')
    BY <1>2, <1>5, <1>7, <2>1, Lengths, CountsOfOneNext DEF Inv
  <2>4. /\ published \in Nat /\ dropped \in Nat
        /\ Len(pending) \in Nat /\ InPost(f) \in Nat
    BY Lengths DEF Inv
  <2>5. Counted' = (published + InPost(f)) + dropped + (InPost(f)' + Len(pending'))
    BY <1>5, <1>7, <2>1, <2>3, <2>4
  <2>6. Counted = (published + InPost(f)) + dropped + Len(pending)
    BY <2>2, <2>4
  <2> QED BY <2>1, <2>5, <2>6
<1> QED BY <1>1, <1>2, <1>3, <1>4, <1>5, <1>6, <1>7, <1>8

\* What it does when it fails, whether or not the collector has the batch.
LEMMA FlushFails ==
  ASSUME PublisherAssumption, Inv, NEW f \in Flusher, PutBack(f), Refused(f),
         \A g \in Flusher \ {f} : batch[g] = <<>>, published' = published
  PROVE  /\ Flow' /\ Counted' = Counted /\ dropped' \in Nat
         /\ timeline' \in Seq(Events) /\ pending' \in Seq(Events) /\ Len(pending') <= Buffer
         /\ batch' \in [Flusher -> Seq(Events)]
         /\ \A g \in Flusher : batch'[g] = <<>>
<1>1. /\ pending' \in Seq(Events) /\ Len(pending') <= Buffer
      /\ batch' = [batch EXCEPT ![f] = <<>>] /\ batch' \in [Flusher -> Seq(Events)]
      /\ dropped' \in Nat /\ dropped' + Len(pending') = dropped + Len(batch[f]) + Len(pending)
  BY PutsBack DEF Inv, Books
<1>2. \A g \in Flusher : batch'[g] = <<>>
  BY <1>1 DEF Inv, Books, TypeOK
<1>3. timeline' \in Seq(Events) /\ Rising(timeline') /\ Due(timeline', pending) /\ Due(timeline', batch[f])
  BY Arrival DEF Inv, Refused
<1>4. Rising(pending') /\ Due(timeline', pending')
  BY <1>3, PuttingBackKeepsOrder DEF Inv, Books
<1>5. Flow'
  <2>1. Len(<<>>) = 0 /\ Rising(<<>>) /\ Due(timeline', <<>>)
    BY DEF Rising, Due
  <2> QED BY <1>2, <1>3, <1>4, <2>1 DEF Flow
<1>6. Counted' = Counted
  <2>1. InPost("pump")' = 0 /\ InPost("drain")' = 0 /\ InPost(f)' = 0
    BY <1>2, EmptySeq DEF InPost, Flusher
  <2>2. Counted = published + dropped + (Len(pending) + InPost(f))
    BY Lengths, CountsOfOne DEF Inv
  <2>3. Counted' = published' + dropped' + (Len(pending') + InPost(f)')
    <3>1. Len(pending') \in Nat /\ dropped' \in Nat /\ published' \in Nat
      BY <1>1, Lengths DEF Inv
    <3>2. InPost("pump")' \in Nat /\ InPost("drain")' \in Nat
      BY <2>1
    <3> QED BY <1>2, <3>1, <3>2, CountsOfOneNext
  <2>4. dropped' + Len(pending') = dropped + InPost(f) + Len(pending) /\ Len(pending') \in Nat
    BY <1>1 DEF InPost
  <2>5. /\ published \in Nat /\ dropped \in Nat /\ dropped' \in Nat
        /\ Len(pending) \in Nat /\ InPost(f) \in Nat
    BY <1>1, Lengths DEF Inv
  <2>6. Counted' = published + (dropped' + Len(pending'))
    BY <2>1, <2>3, <2>4, <2>5
  <2>7. Counted = published + (dropped + InPost(f) + Len(pending))
    BY <2>2, <2>5
  <2> QED BY <2>4, <2>6, <2>7
<1> QED BY <1>1, <1>2, <1>3, <1>5, <1>6

\* Nothing that the invariant is about changes.
LEMMA Undisturbed ==
  ASSUME Inv, UNCHANGED <<emitted, pending, counts, batch, drain, timeline>>,
         pump' = pump, consecutive' \in 0 .. MaxDoublings, sent' \in BOOLEAN,
         collector' \in {"up", "flaky", "down"}
  PROVE  Inv'
<1>1. TypeOK'
  BY DEF Inv, Books, TypeOK, Events, counts
<1>2. Posting' /\ Answered' /\ Flow'
  BY DEF Inv, Books, Posting, Answered, Counted, InPost, Flow, Due, Kept, Later, Rising, counts
<1> QED BY <1>1, <1>2 DEF Inv, Books

LEMMA WakesKeeps == ASSUME PublisherAssumption, Inv, Wakes PROVE Inv'
<1>1. CASE pending = <<>>
  BY <1>1, Undisturbed DEF Wakes, Inv, Books, TypeOK, counts, PublisherAssumption
<1>2. CASE pending # <<>>
  <2>1. /\ TakesBatch("pump") /\ pump = "asleep" /\ pump' = "posting" /\ sent' = FALSE
        /\ UNCHANGED <<emitted, published, dropped, consecutive, drain, collector, timeline>>
    BY <1>2 DEF Wakes, counts
  <2>2. drain = "no" /\ batch["pump"] = <<>> /\ \A g \in Flusher \ {"pump"} : batch[g] = <<>>
    BY <2>1 DEF Inv, Books, Posting, TypeOK, Flusher
  <2>3. Len(batch["pump"]) = 0
    BY <2>2
  <2>4. Rising(timeline') /\ Due(timeline', pending) /\ published' = published + Len(batch["pump"])
    BY <2>1, <2>3 DEF Inv, Books, TypeOK, Flow
  <2>5. /\ Flow' /\ Counted' = Counted
        /\ pending' \in Seq(Events) /\ Len(pending') <= Buffer
        /\ batch' \in [Flusher -> Seq(Events)]
        /\ \A g \in Flusher : Len(batch'[g]) <= Batch
        /\ \A g \in Flusher \ {"pump"} : batch'[g] = <<>>
    BY <2>1, <2>2, <2>4, FlushGoesOn DEF Flusher
  <2>6. TypeOK'
    BY <2>1, <2>5 DEF Inv, Books, TypeOK, Events
  <2>7. Posting' /\ Answered'
    BY <2>1, <2>2, <2>5 DEF Inv, Books, Posting, Answered, Flusher
  <2> QED BY <2>5, <2>6, <2>7 DEF Inv, Books
<1> QED BY <1>1, <1>2

\* A batch that was accepted: the flusher goes on, or has nothing left.
LEMMA AcceptedKeeps ==
  ASSUME PublisherAssumption, Inv, NEW f \in Flusher, Accepted(f), TakesBatch(f),
         \A g \in Flusher \ {f} : batch[g] = <<>>,
         UNCHANGED <<emitted, dropped, collector>>,
         consecutive' \in 0 .. MaxDoublings, sent' \in BOOLEAN,
         pump' \in {"asleep", "posting", "off"}, drain' \in {"no", "posting", "done"}
  PROVE  /\ TypeOK' /\ Flow' /\ Counted' = Counted
         /\ \A g \in Flusher : Len(batch'[g]) <= Batch
         /\ \A g \in Flusher \ {f} : batch'[g] = <<>>
         /\ pending = <<>> => batch'[f] = <<>>
<1>1. timeline' \in Seq(Events) /\ Rising(timeline') /\ Due(timeline', pending)
  BY Arrival DEF Inv, Accepted
<1>2. /\ Flow' /\ Counted' = Counted /\ published' \in Nat
      /\ pending' \in Seq(Events) /\ Len(pending') <= Buffer
      /\ batch' \in [Flusher -> Seq(Events)]
      /\ \A g \in Flusher : Len(batch'[g]) <= Batch
      /\ \A g \in Flusher \ {f} : batch'[g] = <<>>
      /\ pending = <<>> => batch'[f] = <<>>
  BY <1>1, FlushGoesOn DEF Accepted
<1>3. TypeOK'
  BY <1>1, <1>2 DEF Inv, Books, TypeOK, Events
<1> QED BY <1>2, <1>3

LEMMA PumpAcceptedKeeps == ASSUME PublisherAssumption, Inv, PumpAccepted PROVE Inv'
<1>1. pump = "posting" /\ drain = "no" /\ \A g \in Flusher \ {"pump"} : batch[g] = <<>>
  BY DEF PumpAccepted, Inv, Books, Posting, TypeOK, Flusher
<1>2. /\ Accepted("pump") /\ TakesBatch("pump") /\ UNCHANGED <<emitted, dropped, drain, collector>>
      /\ sent' \in BOOLEAN /\ consecutive' \in 0 .. MaxDoublings
      /\ IF pending = <<>> THEN pump' = "asleep" ELSE pump' = "posting"
  BY <1>1 DEF PumpAccepted, Inv, Books, TypeOK, PublisherAssumption
<1>3. /\ TypeOK' /\ Flow' /\ Counted' = Counted
      /\ \A g \in Flusher : Len(batch'[g]) <= Batch
      /\ \A g \in Flusher \ {"pump"} : batch'[g] = <<>>
      /\ pending = <<>> => batch'["pump"] = <<>>
  BY <1>1, <1>2, AcceptedKeeps DEF Flusher
<1>4. Posting' /\ Answered'
  BY <1>1, <1>2, <1>3 DEF Inv, Books, Posting, Answered, Flusher
<1> QED BY <1>3, <1>4 DEF Inv, Books

LEMMA DrainAcceptedKeeps == ASSUME PublisherAssumption, Inv, DrainAccepted PROVE Inv'
<1>1. drain = "posting" /\ pump = "off" /\ \A g \in Flusher \ {"drain"} : batch[g] = <<>>
  BY DEF DrainAccepted, Inv, Books, Posting, TypeOK, Flusher
<1>2. /\ Accepted("drain") /\ TakesBatch("drain")
      /\ UNCHANGED <<emitted, dropped, consecutive, pump, sent, collector>>
      /\ sent' \in BOOLEAN /\ consecutive' \in 0 .. MaxDoublings
      /\ IF pending = <<>> THEN drain' = "done" ELSE drain' = "posting"
  BY <1>1 DEF DrainAccepted, Inv, Books, TypeOK
<1>3. /\ TypeOK' /\ Flow' /\ Counted' = Counted
      /\ \A g \in Flusher : Len(batch'[g]) <= Batch
      /\ \A g \in Flusher \ {"drain"} : batch'[g] = <<>>
      /\ pending = <<>> => batch'["drain"] = <<>>
  BY <1>1, <1>2, AcceptedKeeps DEF Flusher
<1>4. Posting'
  BY <1>1, <1>2, <1>3 DEF Inv, Books, Posting, Flusher
<1>5. Answered'
  <2>1. Counted \in Nat /\ emitted \in Nat /\ Batch \in Nat
    BY Lengths DEF Inv, Counted, PublisherAssumption
  <2> QED BY <1>1, <1>2, <1>3, <2>1 DEF Inv, Books, Answered
<1> QED BY <1>3, <1>4, <1>5 DEF Inv, Books

LEMMA PumpRefusedKeeps == ASSUME PublisherAssumption, Inv, PumpRefused PROVE Inv'
<1>1. pump = "posting" /\ drain = "no" /\ \A g \in Flusher \ {"pump"} : batch[g] = <<>>
  BY DEF PumpRefused, Inv, Books, Posting, TypeOK, Flusher
<1>2. /\ Refused("pump") /\ PutBack("pump") /\ pump' = "asleep"
      /\ UNCHANGED <<emitted, published, sent, drain, collector>>
  BY DEF PumpRefused
<1>3. consecutive' \in 0 .. MaxDoublings
  BY DEF PumpRefused, Inv, Books, TypeOK, Smaller, PublisherAssumption
<1>4. /\ Flow' /\ Counted' = Counted /\ dropped' \in Nat
      /\ timeline' \in Seq(Events) /\ pending' \in Seq(Events) /\ Len(pending') <= Buffer
      /\ batch' \in [Flusher -> Seq(Events)] /\ \A g \in Flusher : batch'[g] = <<>>
  BY <1>1, <1>2, FlushFails DEF Flusher
<1>5. TypeOK'
  BY <1>2, <1>3, <1>4 DEF Inv, Books, TypeOK, Events
<1>6. Posting' /\ Answered'
  <2>1. \A g \in Flusher : Len(batch'[g]) <= Batch
    BY <1>4, EmptySeq DEF PublisherAssumption
  <2> QED BY <1>1, <1>2, <1>4, <2>1 DEF Inv, Books, Posting, Answered, Flusher
<1> QED BY <1>4, <1>5, <1>6 DEF Inv, Books

LEMMA DrainRefusedKeeps == ASSUME PublisherAssumption, Inv, DrainRefused PROVE Inv'
<1>1. drain = "posting" /\ pump = "off" /\ \A g \in Flusher \ {"drain"} : batch[g] = <<>>
  BY DEF DrainRefused, Inv, Books, Posting, TypeOK, Flusher
<1>2. /\ Refused("drain") /\ PutBack("drain") /\ drain' = "done"
      /\ UNCHANGED <<emitted, published, consecutive, pump, sent, collector>>
  BY DEF DrainRefused
<1>3. /\ Flow' /\ Counted' = Counted /\ dropped' \in Nat
      /\ timeline' \in Seq(Events) /\ pending' \in Seq(Events) /\ Len(pending') <= Buffer
      /\ batch' \in [Flusher -> Seq(Events)] /\ \A g \in Flusher : batch'[g] = <<>>
  BY <1>1, <1>2, FlushFails DEF Flusher
<1>4. TypeOK'
  BY <1>2, <1>3 DEF Inv, Books, TypeOK, Events
<1>5. Posting'
  <2>1. \A g \in Flusher : Len(batch'[g]) <= Batch
    BY <1>3, EmptySeq DEF PublisherAssumption
  <2> QED BY <1>1, <1>2, <1>3, <2>1 DEF Inv, Books, Posting, Flusher
<1>6. Answered'
  <2>1. Counted \in Nat /\ emitted \in Nat /\ Batch \in Nat
    BY Lengths DEF Inv, Counted, PublisherAssumption
  <2> QED BY <1>1, <1>2, <1>3, <2>1 DEF Inv, Books, Answered
<1> QED BY <1>3, <1>4, <1>5, <1>6 DEF Inv, Books

\* A deadline abandons the drain's batch.
LEMMA DrainOutOfTimeKeeps == ASSUME PublisherAssumption, Inv, DrainOutOfTime PROVE Inv'
<1>1. drain = "posting" /\ pump = "off" /\ \A g \in Flusher \ {"drain"} : batch[g] = <<>>
  BY DEF DrainOutOfTime, Inv, Books, Posting, TypeOK, Flusher
<1>2. /\ CutOff("drain") /\ batch' = [batch EXCEPT !["drain"] = <<>>] /\ drain' = "done"
      /\ UNCHANGED <<emitted, pending, published, dropped, consecutive, pump, sent, collector>>
  BY DEF DrainOutOfTime, counts
<1>3. \A g \in Flusher : batch'[g] = <<>>
  BY <1>1, <1>2 DEF Inv, Books, TypeOK
<1>4. timeline' \in Seq(Events) /\ Rising(timeline') /\ Due(timeline', pending)
  BY <1>2, Arrival DEF Inv, CutOff, Flusher
<1>5. TypeOK'
  <2>1. batch' \in [Flusher -> Seq(Events)]
    BY <1>2, EmptySeq DEF Inv, Books, TypeOK
  <2> QED BY <1>2, <1>4, <2>1 DEF Inv, Books, TypeOK, Events
<1>6. Flow'
  <2>1. Len(<<>>) = 0 /\ Rising(<<>>) /\ Due(timeline', <<>>)
    BY DEF Rising, Due
  <2>2. Rising(pending') /\ Due(timeline', pending')
    BY <1>2, <1>4 DEF Inv, Flow
  <2> QED BY <1>3, <1>4, <2>1, <2>2 DEF Flow
<1>7. Posting'
  <2>1. \A g \in Flusher : Len(batch'[g]) <= Batch
    BY <1>3, EmptySeq DEF PublisherAssumption
  <2> QED BY <1>1, <1>2, <1>3, <2>1 DEF Posting, Flusher
<1>8. Answered'
  <2>1. InPost("pump")' = 0 /\ InPost("drain")' = 0 /\ InPost("pump") = 0
    BY <1>1, <1>3, EmptySeq DEF InPost, Flusher
  <2>2. InPost("drain") <= Batch /\ InPost("drain") \in Nat /\ Batch \in Nat
    BY Lengths DEF Inv, Books, Posting, InPost, Flusher, PublisherAssumption
  <2>3. /\ Counted = published + dropped + Len(pending) + InPost("drain")
        /\ Counted' = published + dropped + Len(pending)
        /\ published + dropped + Len(pending) \in Nat
    BY <1>2, <2>1, <2>2, Lengths DEF Inv, Counted
  <2>4. Counted <= emitted /\ emitted <= Counted + Batch /\ emitted \in Nat
    BY <1>1, Lengths DEF Inv, Books, Answered
  <2>5. Counted' <= emitted /\ emitted <= Counted' + 2 * Batch
    BY <2>2, <2>3, <2>4
  <2> QED BY <1>2, <2>5 DEF Answered
<1> QED BY <1>5, <1>6, <1>7, <1>8 DEF Inv, Books

\* A stop abandons the pump's batch, and the drain takes the next.
LEMMA StopKeeps == ASSUME PublisherAssumption, Inv, Stop PROVE Inv'
<1> DEFINE n == Smaller(Batch, Len(pending))
<1>1. /\ drain = "no" /\ pump' = "off" /\ CutOff("pump")
      /\ batch' = [pump |-> <<>>, drain |-> SubSeq(pending, 1, n)]
      /\ pending' = SubSeq(pending, n + 1, Len(pending))
      /\ drain' = IF pending = <<>> THEN "done" ELSE "posting"
      /\ UNCHANGED <<emitted, published, dropped, consecutive, sent, collector>>
  BY DEF Stop, counts, CutOff
<1>2. Moves("drain") /\ \A g \in Flusher \ {"drain"} : batch'[g] = <<>>
  <2>1. batch'["drain"] = SubSeq(pending, 1, n) /\ batch'["pump"] = <<>>
    BY <1>1
  <2>2. Moves("drain")
    BY <1>1, <2>1 DEF Moves
  <2> QED BY <2>1, <2>2 DEF Flusher
<1>3. /\ pending' \in Seq(Events) /\ batch'["drain"] \in Seq(Events)
      /\ Len(batch'["drain"]) + Len(pending') = Len(pending) /\ Len(batch'["drain"]) <= Batch
      /\ pending = <<>> => batch'["drain"] = <<>>
  BY <1>2, Taken DEF Inv, Books, Flusher
<1>4. timeline' \in Seq(Events) /\ Rising(timeline') /\ Due(timeline', pending)
  BY <1>1, Arrival DEF Inv, CutOff, Flusher
<1>5. Flow'
  BY <1>2, <1>4, TakingKeepsOrder, OneBatch DEF Inv, Books, Flow, Flusher
<1>6. TypeOK'
  <2>1. batch' \in [Flusher -> Seq(Events)]
    BY <1>1, <1>2, <1>3, EmptySeq DEF Flusher
  <2>2. Len(pending') <= Buffer
    <3>1. /\ Len(pending) <= Buffer /\ Len(pending) \in Nat /\ Len(pending') \in Nat
          /\ Len(batch'["drain"]) \in Nat
      BY <1>3 DEF Inv, Books, TypeOK
    <3> QED BY <1>3, <3>1 DEF PublisherAssumption
  <2>3. UNCHANGED <<emitted, published, dropped, consecutive, sent, collector>> /\ Events' = Events
    BY <1>1 DEF Events
  <2>4. drain' \in {"no", "posting", "done"} /\ pump' = "off"
    BY <1>1
  <2> QED BY <1>3, <1>4, <2>1, <2>2, <2>3, <2>4 DEF Inv, Books, TypeOK
<1>7. Posting'
  <2>1. \A g \in Flusher : Len(batch'[g]) <= Batch
    BY <1>2, <1>3, EmptySeq DEF PublisherAssumption
  <2>2. batch'["pump"] = <<>> /\ (drain' # "posting" => batch'["drain"] = <<>>) /\ pump' = "off"
    BY <1>1, <1>3
  <2> QED BY <2>1, <2>2 DEF Posting
<1>8. Answered'
  <2>1. /\ InPost("pump")' = 0 /\ InPost("drain") = 0
    BY <1>1, <1>2, EmptySeq DEF Inv, Books, Posting, InPost, Flusher
  <2>2. /\ InPost("pump") <= Batch /\ InPost("pump") \in Nat /\ Batch \in Nat
    BY Lengths DEF Inv, Books, Posting, InPost, Flusher, PublisherAssumption
  <2>3. /\ InPost("drain")' + Len(pending') = Len(pending)
        /\ InPost("drain")' \in Nat /\ Len(pending') \in Nat
    BY <1>3 DEF InPost
  <2>4. /\ published \in Nat /\ dropped \in Nat /\ Len(pending) \in Nat
        /\ published' = published /\ dropped' = dropped
    BY <1>1, Lengths DEF Inv
  <2>5. /\ Counted = published + dropped + Len(pending) + InPost("pump")
        /\ published + dropped + Len(pending) \in Nat
    BY <2>1, <2>2, <2>4 DEF Counted
  <2>6. Counted' = published + dropped + Len(pending') + InPost("drain")'
    BY <2>1, <2>3, <2>4 DEF Counted
  <2>7. @ = published + dropped + Len(pending)
    BY <2>3, <2>4
  <2>8. Counted <= emitted /\ emitted <= Counted /\ emitted \in Nat
    BY <1>1, Lengths DEF Inv, Books, Answered
  <2> DEFINE c == published + dropped + Len(pending)
  <2>9. c \in Nat /\ Counted' = c /\ c <= emitted /\ emitted <= c + Batch
    BY <2>2, <2>5, <2>6, <2>7, <2>8
  <2> HIDE DEF c
  <2>10. Counted' <= emitted /\ emitted <= Counted' + Batch /\ emitted <= Counted' + 2 * Batch
    BY <2>2, <2>8, <2>9
  <2>11. drain' # "no" /\ emitted' = emitted
    BY <1>1
  <2> QED BY <2>10, <2>11 DEF Answered
<1> QED BY <1>5, <1>6, <1>7, <1>8 DEF Inv, Books

LEMMA CollectorKeeps == ASSUME Inv, CollectorChanges PROVE Inv'
BY Undisturbed DEF CollectorChanges, Inv, Books, TypeOK, counts

LEMMA Inductive == PublisherAssumption /\ Inv /\ [Next]_vars => Inv'
<1> SUFFICES ASSUME PublisherAssumption, Inv, [Next]_vars PROVE Inv'
  OBVIOUS
<1>1. CASE UNCHANGED vars
  BY <1>1, Undisturbed DEF vars, counts, Inv, Books, TypeOK
<1>2. CASE Pump
  BY <1>2, WakesKeeps, PumpAcceptedKeeps, PumpRefusedKeeps DEF Pump
<1> QED
  BY <1>1, <1>2, EmitKeeps, StopKeeps, DrainAcceptedKeeps, DrainRefusedKeeps,
     DrainOutOfTimeKeeps, CollectorKeeps DEF Next

LEMMA InvAlways == Spec => []Inv
BY PublisherAssumption, InitInv, Inductive, PTL DEF Spec
-----------------------------------------------------------------------------
(* The theorems.                                                          *)

\* For every buffer, batch and number of events: the types hold, the buffer never grows past its
\* bound, snapshot() answers for every event while the service runs, and a stop leaves at most
\* the two batches it interrupts unanswered for.
THEOREM EveryEventAccounted == Spec => []Accounted
<1>1. Inv => Accounted
  <2> SUFFICES ASSUME Inv PROVE Accounted
    OBVIOUS
  <2>1. Counted = published + dropped + Len(pending) + Len(batch["pump"]) + Len(batch["drain"])
    BY DEF Counted, InPost
  <2>2. Counted \in Nat /\ emitted \in Nat /\ Batch \in Nat
    BY PublisherAssumption, Lengths DEF Inv, Counted, PublisherAssumption
  <2>3. drain = "no" => Counted = emitted
    BY <2>2 DEF Inv, Books, Answered
  <2>4. Counted <= emitted /\ emitted <= Counted + 2 * Batch
    BY <2>2 DEF Inv, Books, Answered, TypeOK
  <2> QED BY <2>1, <2>3, <2>4 DEF Inv, Books, Accounted
<1> QED BY <1>1, InvAlways, PTL

\* "Ordering survives an outage": whatever is refused, kept without an answer, put back or
\* dropped, the collector first sees events in the order they were emitted.
THEOREM OrderSurvives == Spec => []InOrder
<1>1. Inv => InOrder
  <2> SUFFICES ASSUME Inv PROVE InOrder
    OBVIOUS
  <2>1. DOMAIN pending = 1 .. Len(pending) /\ \A f \in Flusher : DOMAIN batch[f] = 1 .. Len(batch[f])
    BY DEF Inv, Books, TypeOK
  <2> QED BY <2>1 DEF Inv, Flow, InOrder
<1> QED BY <1>1, InvAlways, PTL
=============================================================================
